---- MODULE Spec2Model ----
(***************************************************************************)
(* Folder tree and file version store of the RBAC file manager back end.   *)
(*                                                                         *)
(* Strings are sequences of one-character strings, so that substring       *)
(* tests, first-occurrence replacement and path joining are computed the   *)
(* way the JavaScript code computes them.                                  *)
(***************************************************************************)
EXTENDS Integers, Sequences, FiniteSets, TLC

\* ------------------------------------------------------------------ bounds
MaxFolders == 3      \* folder ids ever allocated in one behaviour
MaxPathLen == 9      \* longest folder path the store accepts (characters)
MaxMoreFolders == 2  \* folder ids allocated after the replayed requests
MaxFiles == 3        \* file ids ever allocated in one behaviour
MaxBytes == 3        \* distinct contents an upload may carry
MaxBatch == 1        \* files in one upload request
MaxReviewFiles == 2  \* file ids allocated in one behaviour of the review desk
MaxBatchFiles == 2   \* files in one request of the batch uploads
MaxChunks == 2       \* reads in which a stream delivers its bytes
MaxDepth == 2        \* segments of the longest absolute path of the adapter
MaxUsers == 3        \* documents of the User collection in one behaviour

\* --------------------------------------------------------------- constants
NoId == 0            \* null / absent reference
Undefined == -1      \* a request body field that was not sent

Slash == "/"
Names == { <<"a">>, <<"b">> }      \* names a rename request may carry
CreateNames == { <<"a">> }         \* names a create request may carry
NoName == <<>>
FolderIds == 1..MaxFolders

\* the User collection: one principal of role admin, one sub-admin, two users
Admin == "admin"
SubAdmin == "sub"
U1 == "u1"
U2 == "u2"
Users == { Admin, SubAdmin, U1, U2 }
Role(u) ==
  IF u = Admin THEN "admin" ELSE IF u = SubAdmin THEN "sub-admin" ELSE "user"

\* a document of the User collection; the e-mail address stands for the
\* username as well, both being unique
UserDoc(email, role) == [email |-> email, role |-> role]

\* the collection that holds the four principals
Principals ==
  <<UserDoc(Admin, Role(Admin)), UserDoc(SubAdmin, Role(SubAdmin)),
    UserDoc(U1, Role(U1)), UserDoc(U2, Role(U2))>>

NoUser == "nobody"   \* an ObjectId reference that is null or not set
NoTime == "unset"    \* a Date that is null or not set
Now == "now"         \* new Date()
Absent == <<"absent">>      \* a text that is undefined or null

\* Major versions of the ODM whose documented behaviour differs where the
\* routes rely on it.  A key whose value is undefined in an update object is
\* written as null by version 5 and dropped from the update by version 6 and
\* the later ones.
OdmVersions == { 5, 6 }
UndefinedWritesNull(v) == v = 5

\* ------------------------------------------------------- string primitives
\* String.prototype.includes
Includes(s, t) ==
  \E i \in 1..(Len(s) - Len(t) + 1) : SubSeq(s, i, i + Len(t) - 1) = t

\* String.prototype.indexOf, 1-based; 0 when t does not occur
IndexOf(s, t) ==
  IF Includes(s, t)
  THEN CHOOSE i \in 1..(Len(s) - Len(t) + 1) :
         /\ SubSeq(s, i, i + Len(t) - 1) = t
         /\ \A j \in 1..(i - 1) : SubSeq(s, j, j + Len(t) - 1) # t
  ELSE 0

\* String.prototype.replace with a string pattern: first occurrence only
Replace(s, old, new) ==
  LET i == IndexOf(s, old) IN
  IF i = 0 THEN s
  ELSE SubSeq(s, 1, i - 1) \o new \o SubSeq(s, i + Len(old), Len(s))

\* s.substring(0, s.lastIndexOf('/')): empty when s holds no slash
DirPrefix(s) ==
  LET idx == { i \in 1..Len(s) : s[i] = Slash } IN
  IF idx = {} THEN <<>>
  ELSE LET k == CHOOSE i \in idx : \A j \in idx : j <= i IN SubSeq(s, 1, k - 1)

\* path.normalize on slash-separated names: runs of slashes collapse and a
\* trailing slash is dropped (the names hold neither '.' nor '..')
RECURSIVE Normalize(_)
Normalize(s) ==
  IF Len(s) = 0 THEN s
  ELSE IF Len(s) = 1 THEN s
  ELSE IF s[1] = Slash /\ s[2] = Slash THEN Normalize(Tail(s))
  ELSE IF Len(s) = 2 /\ s[2] = Slash THEN <<s[1]>>
  ELSE <<s[1]>> \o Normalize(Tail(s))

\* path.join(p, n).replace(/\\/g, "/"): empty segments are skipped
PathJoin(p, n) ==
  IF p = <<>> THEN Normalize(n)
  ELSE IF n = <<>> THEN Normalize(p)
  ELSE Normalize(p \o <<Slash>> \o n)

\* Template literal `${p}/${n}`: plain concatenation, no normalisation
Template(p, n) == p \o <<Slash>> \o n

\* storage.getFullPath relative to STORAGE_ROOT: path.join drops a leading slash
Phys(p) ==
  LET q == Normalize(p) IN
  IF Len(q) > 0 /\ q[1] = Slash THEN Tail(q) ELSE q

\* every directory mkdir(..., {recursive: true}) makes sure exists
RECURSIVE DirChain(_)
DirChain(q) ==
  IF q = <<>> THEN {}
  ELSE {q} \cup DirChain(DirPrefix(q))

CreateDirectory(ds, p) == ds \cup DirChain(Phys(p))

\* ------------------------------------------------------------------- state
VARIABLES
  folders,    \* Folder collection: id -> document
  nextId,     \* next fresh ObjectId of the Folder collection
  dirs,       \* directories that exist under the storage root
  last,       \* the request just served: operation, response status, the
              \* folder an update addressed, the documents its walk rewrote
  files,      \* File collection: id -> document
  nextFileId, \* next fresh ObjectId of the File collection
  disk,       \* regular files under the storage root: path -> bytes
  odm,        \* the ODM version the build runs on; never changes
  inflight,   \* requests in flight: id -> position and locals of the handler
  users       \* User collection: id -> document

vars ==
  <<folders, nextId, dirs, last, files, nextFileId, disk, odm, inflight, users>>

FolderDoc(name, path, parent, depth) ==
  [name |-> name, path |-> path, parentFolder |-> parent, depth |-> depth,
   isSystemFolder |-> FALSE, createdBy |-> Admin, access |-> <<>>]

Exists(fs, id) == id \in DOMAIN fs

\* unique index on Folder.path: may document id hold path p?
PathFree(fs, id, p) == \A j \in DOMAIN fs : j # id => fs[j].path # p

\* the store refuses a document whose path outgrows its size limit
TooLong(p) == Len(p) > MaxPathLen

\* is id among its own ancestors (followed through existing documents)?
RECURSIVE ReachesUp(_, _, _, _)
ReachesUp(fs, from, target, fuel) ==
  IF fuel = 0 \/ from = NoId \/ ~Exists(fs, from) THEN FALSE
  ELSE IF fs[from].parentFolder = target THEN TRUE
  ELSE ReachesUp(fs, fs[from].parentFolder, target, fuel - 1)

\* d is a proper descendant of a
IsDescendant(fs, d, a) == ReachesUp(fs, d, a, Cardinality(DOMAIN fs))
OnCycle(fs, id) == IsDescendant(fs, id, id)

\* Folder.find({parentFolder: id}) in insertion order
RECURSIVE SortedSeq(_)
SortedSeq(S) ==
  IF S = {} THEN <<>>
  ELSE LET m == CHOOSE x \in S : \A y \in S : x <= y
       IN <<m>> \o SortedSeq(S \ {m})

ChildrenOf(fs, id) == SortedSeq({ j \in DOMAIN fs : fs[j].parentFolder = id })

NoReq == [op |-> "none", status |-> 0, id |-> NoId, visits |-> <<>>]

Init ==
  /\ folders = <<>>
  /\ nextId = 1
  /\ dirs = {}
  /\ last = NoReq
  /\ files = <<>>
  /\ nextFileId = 1
  /\ disk = <<>>
  /\ odm = 6
  /\ inflight = <<>>
  /\ users = Principals

\* ---------------------------------------------------- POST /folder (create)
\* folderSchema.pre('save') for a new document: depth and path from the parent
NewFolderDoc(fs, name, parent) ==
  IF parent # NoId /\ Exists(fs, parent)
  THEN FolderDoc(name, Template(fs[parent].path, name), parent,
                 fs[parent].depth + 1)
  ELSE FolderDoc(name, name, parent, 0)

\* the path the route looks up before saving
CreateLookupPath(fs, name, parent) ==
  IF parent # NoId THEN PathJoin(fs[parent].path, name)
  ELSE PathJoin(<<Slash>>, name)

\* the whole handler: [status, folders, dirs]
CreateFolder(fs, ds, nid, name, parent) ==
  IF parent # NoId /\ ~Exists(fs, parent)
  THEN [status |-> 404, folders |-> fs, dirs |-> ds]
  ELSE IF \E j \in DOMAIN fs : fs[j].path = CreateLookupPath(fs, name, parent)
  THEN [status |-> 409, folders |-> fs, dirs |-> ds]
  ELSE LET doc == NewFolderDoc(fs, name, parent)
           ds1 == CreateDirectory(ds, doc.path)
       IN IF PathFree(fs, nid, doc.path)
          THEN [status |-> 201, folders |-> fs @@ (nid :> doc), dirs |-> ds1]
          ELSE [status |-> 500, folders |-> fs, dirs |-> ds1]

CreateUpTo(limit, name, parent) ==
  \E r \in {CreateFolder(folders, dirs, nextId, name, parent)} :
  /\ r.status = 201 => nextId <= limit
  /\ r.status = 201 => ~TooLong(r.folders[nextId].path)
  /\ folders' = r.folders
  /\ dirs' = r.dirs
  /\ nextId' = IF r.status = 201 THEN nextId + 1 ELSE nextId
  /\ last' = [op |-> "create", status |-> r.status, id |-> NoId,
              visits |-> <<>>]
  /\ UNCHANGED <<users, inflight, odm, files, nextFileId, disk>>

Create(name, parent) == CreateUpTo(MaxFolders, name, parent)

\* ------------------------------------------------- PUT /folder/:id (update)
\* a walk that rewrites the direct children only
RECURSIVE ShallowChildList(_, _, _, _)
ShallowChildList(fs, children, newParentPath, visits) ==
  IF children = <<>>
  THEN [ok |-> TRUE, long |-> FALSE, folders |-> fs, visits |-> visits]
  ELSE LET c == Head(children)
           newPath == PathJoin(newParentPath, fs[c].name)
       IN IF ~PathFree(fs, c, newPath) \/ TooLong(newPath)
          THEN [ok |-> FALSE, long |-> TooLong(newPath), folders |-> fs,
                visits |-> visits]
          ELSE ShallowChildList([fs EXCEPT ![c].path = newPath],
                                Tail(children), newParentPath,
                                visits \o <<c>>)

UpdateChildPathsShallow(fs, parentId, newParentPath) ==
  ShallowChildList(fs, ChildrenOf(fs, parentId), newParentPath, <<>>)

\* routes/folder.js updateChildPaths: depth-first over Folder.find results;
\* a rejected write throws and abandons the rest of the walk
RECURSIVE UpdateChildPaths(_, _, _)
RECURSIVE UpdateChildList(_, _, _, _)
RECURSIVE AfterChild(_, _, _, _, _)
UpdateChildPaths(fs, parentId, newParentPath) ==
  UpdateChildList(fs, ChildrenOf(fs, parentId), newParentPath, <<>>)

UpdateChildList(fs, children, newParentPath, visits) ==
  IF children = <<>>
  THEN [ok |-> TRUE, long |-> FALSE, folders |-> fs, visits |-> visits]
  ELSE LET c == Head(children)
           newPath == PathJoin(newParentPath, fs[c].name)
       IN IF ~PathFree(fs, c, newPath) \/ TooLong(newPath)
          THEN [ok |-> FALSE, long |-> TooLong(newPath), folders |-> fs,
                visits |-> visits]
          ELSE LET fs1 == [fs EXCEPT ![c].path = newPath] IN
               AfterChild(UpdateChildPaths(fs1, c, newPath), c,
                          Tail(children), newParentPath, visits)

\* the loop after the recursive call for child c returned (or threw)
AfterChild(sub, c, rest, newParentPath, visits) ==
  IF ~sub.ok
  THEN [ok |-> FALSE, long |-> sub.long, folders |-> sub.folders,
        visits |-> visits \o <<c>> \o sub.visits]
  ELSE UpdateChildList(sub.folders, rest, newParentPath,
                       visits \o <<c>> \o sub.visits)

\* "Prevent moving into itself or children"
MoveRejected(folderPath, newParentPath) == Includes(newParentPath, folderPath)

\* the `updates` object the handler builds; "path" is NoName when not set
BuildUpdates(fs, id, name, parent) ==
  LET f == fs[id]
      effName == IF name # NoName THEN name ELSE f.name
  IN IF parent # Undefined
     THEN IF parent = NoId
          THEN [name |-> effName, parentFolder |-> NoId,
                path |-> <<Slash>> \o effName]
          ELSE [name |-> effName, parentFolder |-> parent,
                path |-> PathJoin(fs[parent].path, effName)]
     ELSE IF name # NoName
          THEN [name |-> name, parentFolder |-> f.parentFolder,
                path |-> PathJoin(IF f.parentFolder # NoId
                                  THEN fs[f.parentFolder].path
                                  ELSE <<Slash>>, name)]
          ELSE [name |-> f.name, parentFolder |-> f.parentFolder,
                path |-> NoName]

\* the response once the walk over the children returned (or threw)
UpdateResponse(r) ==
  [status |-> IF r.ok THEN 200 ELSE 500, long |-> r.long,
   folders |-> r.folders, visits |-> r.visits]

\* the whole handler: [status, folders, visits]
UpdateFolder(fs, id, name, parent) ==
  IF ~Exists(fs, id)
  THEN [status |-> 404, long |-> FALSE, folders |-> fs, visits |-> <<>>]
  ELSE IF parent \notin {Undefined, NoId} /\ ~Exists(fs, parent)
  THEN [status |-> 404, long |-> FALSE, folders |-> fs, visits |-> <<>>]
  ELSE IF parent \notin {Undefined, NoId}
          /\ MoveRejected(fs[id].path, fs[parent].path)
  THEN [status |-> 400, long |-> FALSE, folders |-> fs, visits |-> <<>>]
  ELSE IF parent = Undefined /\ name # NoName
          /\ fs[id].parentFolder # NoId /\ ~Exists(fs, fs[id].parentFolder)
  THEN \* (await Folder.findById(...)).path on null throws
       [status |-> 500, long |-> FALSE, folders |-> fs, visits |-> <<>>]
  ELSE LET u == BuildUpdates(fs, id, name, parent) IN
       IF u.path = NoName
       THEN [status |-> 200, long |-> FALSE, folders |-> fs, visits |-> <<>>]
       ELSE IF ~PathFree(fs, id, u.path) \/ TooLong(u.path)
       THEN [status |-> 500, long |-> TooLong(u.path), folders |-> fs,
             visits |-> <<>>]
       ELSE LET fs1 == [fs EXCEPT ![id].name = u.name,
                                  ![id].parentFolder = u.parentFolder,
                                  ![id].path = u.path]
            IN UpdateResponse(UpdateChildPaths(fs1, id, u.path))

Update(id, name, parent) ==
  \E r \in {UpdateFolder(folders, id, name, parent)} :
  \* only a walk round a parentFolder cycle runs into the size limit
  /\ r.long => OnCycle(r.folders, id)
  /\ folders' = r.folders
  /\ last' = [op |-> "update", status |-> r.status, id |-> id,
              visits |-> r.visits]
  /\ UNCHANGED <<users, inflight, odm, dirs, nextId, files, nextFileId, disk>>

\* ---------------------------------------------- DELETE /folder/:id (delete)
\* Folder.deleteOne({_id}) is a query: the document-level pre('deleteOne')
\* hook (query: false) is not run by it
\* a handler that looks at isSystemFolder after the document is gone
DeleteFolderThenRefuse(fs, id) ==
  IF ~Exists(fs, id) THEN [status |-> 404, folders |-> fs]
  ELSE [status |-> IF fs[id].isSystemFolder THEN 403 ELSE 200,
        folders |-> [j \in DOMAIN fs \ {id} |-> fs[j]]]

DeleteFolder(fs, id) ==
  IF ~Exists(fs, id) THEN [status |-> 404, folders |-> fs]
  ELSE IF fs[id].isSystemFolder THEN [status |-> 403, folders |-> fs]
  ELSE [status |-> 200,
        folders |-> [j \in DOMAIN fs \ {id} |-> fs[j]]]

\* File.deleteMany({folder: id}): the records go, the bytes stay
DeleteFilesOf(fl, id) ==
  [i \in { j \in DOMAIN fl : fl[j].folder # id } |-> fl[i]]

Delete(id) ==
  \E r \in {DeleteFolder(folders, id)} :
  /\ folders' = r.folders
  /\ files' = IF r.status = 200 THEN DeleteFilesOf(files, id) ELSE files
  /\ last' = [op |-> "delete", status |-> r.status, id |-> NoId,
              visits |-> <<>>]
  /\ UNCHANGED <<users, inflight, odm, dirs, nextId, nextFileId, disk>>

\* requests address documents that exist
Next ==
  \/ \E n \in CreateNames, p \in {NoId} \cup DOMAIN folders : Create(n, p)
  \/ \E i \in DOMAIN folders, n \in Names \cup {NoName},
        p \in {Undefined, NoId} \cup DOMAIN folders :
          ~(n = NoName /\ p = Undefined) /\ Update(i, n, p)
  \/ \E i \in DOMAIN folders : Delete(i)

Spec == Init /\ [][Next]_vars

\* ------------------------------------------- the tree after a deleted parent
\* The store after these five requests on the empty store:
\*   POST {name: a};  PUT 1 {name: a};  POST {name: a, parentFolder: 1};
\*   PUT 2 {name: b};  DELETE 1
\* Folder 2 is left with path /a/b under a parent that no longer exists.
\* From there on, creates and updates.
A == <<"a">>
B == <<"b">>
Replay1 == CreateFolder(<<>>, {}, 1, A, NoId)
Replay2 == UpdateFolder(Replay1.folders, 1, A, Undefined)
Replay3 == CreateFolder(Replay2.folders, Replay1.dirs, 2, A, 1)
Replay4 == UpdateFolder(Replay3.folders, 2, B, Undefined)
Replay5 == DeleteFolder(Replay4.folders, 1)

InitAfterDelete ==
  /\ folders = Replay5.folders
  /\ nextId = 3
  /\ dirs = Replay3.dirs
  /\ last = [op |-> "delete", status |-> Replay5.status, id |-> NoId,
             visits |-> <<>>]
  /\ files = <<>>
  /\ nextFileId = 1
  /\ disk = <<>>
  /\ odm = 6
  /\ inflight = <<>>
  /\ users = Principals

NextAfterDelete ==
  \/ \E n \in CreateNames, p \in {NoId} \cup DOMAIN folders :
        CreateUpTo(2 + MaxMoreFolders, n, p)
  \/ \E i \in DOMAIN folders, n \in Names \cup {NoName},
        p \in {Undefined, NoId} \cup DOMAIN folders :
          ~(n = NoName /\ p = Undefined) /\ Update(i, n, p)

SpecAfterDelete == InitAfterDelete /\ [][NextAfterDelete]_vars

\* ============================================================ file versions
\* ------------------------------------------------------------ file names
Dot == "."
DigitChars == <<"0", "1", "2", "3", "4", "5", "6", "7", "8", "9">>

\* String(n) for a natural number
RECURSIVE Digits(_)
Digits(n) ==
  IF n < 10 THEN <<DigitChars[n + 1]>>
  ELSE Digits(n \div 10) \o <<DigitChars[(n % 10) + 1]>>

\* path.extname: from the last '.', unless that is the first character
ExtName(s) ==
  LET idx == { i \in 1..Len(s) : s[i] = Dot } IN
  IF idx = {} THEN <<>>
  ELSE LET k == CHOOSE i \in idx : \A j \in idx : j <= i
       IN IF k = 1 THEN <<>> ELSE SubSeq(s, k, Len(s))

\* path.basename(s, ext) of a name without directories
BaseName(s, ext) == SubSeq(s, 1, Len(s) - Len(ext))

\* new Date().toISOString().split('T')[0]: the requests of one behaviour
\* fall on one day
Today == <<"D">>

VersionFormats == { "number", "date" }

\* a version-N name whose counter is N instead of N - 1
GenerateVersionedNameFromOne(originalName, version, format) ==
  LET ext == ExtName(originalName)
      baseName == BaseName(originalName, ExtName(originalName))
  IN IF format = "date" THEN baseName \o <<"_">> \o Today \o ext
     ELSE IF version = 1 THEN originalName
     ELSE baseName \o <<"(">> \o Digits(version) \o <<")">> \o ext

\* fileSchema.statics.generateVersionedName
GenerateVersionedName(originalName, version, format) ==
  LET ext == ExtName(originalName)
      baseName == BaseName(originalName, ExtName(originalName))
  IN IF format = "date" THEN baseName \o <<"_">> \o Today \o ext
     ELSE IF version = 1 THEN originalName
     ELSE baseName \o <<"(">> \o Digits(version - 1) \o <<")">> \o ext

\* crypto.createHash("sha256") over the bytes: distinct bytes, distinct digest
Sha256(bytes) == <<"sha256", bytes>>

\* ------------------------------------------------------------- documents
\* owner, uploadedBy and the approval fields of a new File: uploads of
\* admins and sub-admins are approved by the uploader at once
ApprovalAtUpload(user) ==
  IF Role(user) \in {"admin", "sub-admin"}
  THEN [owner |-> user, uploadedBy |-> user, approvalStatus |-> "approved",
        approvedBy |-> user, approvedAt |-> Now]
  ELSE [owner |-> user, uploadedBy |-> user, approvalStatus |-> "pending",
        approvedBy |-> NoUser, approvedAt |-> NoTime]

\* file.mimetype as multer reports it: the type the client declares.  The
\* fileFilter of utils/multer.js admits the types of ALLOWED_FILE_TYPES
\* only (images, pdf, word, text, zip: no video type), so every record an
\* upload makes carries one of those; the uploads here declare pdf.
MimeType(name) == "application/pdf"

FileDoc(filename, originalFilename, path, folder, fileHash, version, orig, ap) ==
  [filename |-> filename, originalFilename |-> originalFilename,
   mimetype |-> MimeType(originalFilename),
   path |-> path, folder |-> folder, fileHash |-> fileHash,
   version |-> version, isCurrentVersion |-> TRUE,
   previousVersions |-> <<>>, originalFile |-> orig,
   isDeleted |-> FALSE,
   owner |-> ap.owner, uploadedBy |-> ap.uploadedBy,
   approvalStatus |-> ap.approvalStatus,
   approvedBy |-> ap.approvedBy, approvedAt |-> ap.approvedAt,
   rejectedBy |-> NoUser, rejectedAt |-> NoTime,
   disapprovalReason |-> Absent]

\* the unique indexes of the File collection: path, fileHash and
\* (folder, filename); may document id hold these values?
FileUnique(fl, id, doc) ==
  \A j \in DOMAIN fl : j # id =>
    /\ fl[j].path # doc.path
    /\ fl[j].fileHash # doc.fileHash
    /\ ~(fl[j].folder = doc.folder /\ fl[j].filename = doc.filename)

\* File.find({folder, originalFilename, isDeleted: {$ne: true}})
VersionsOf(fl, folder, name) ==
  { i \in DOMAIN fl : /\ fl[i].folder = folder
                      /\ fl[i].originalFilename = name
                      /\ ~fl[i].isDeleted }

\* .sort({version: -1}); records of one version stay in insertion order
RECURSIVE ByVersionDesc(_, _)
ByVersionDesc(fl, S) ==
  IF S = {} THEN <<>>
  ELSE LET m == CHOOSE x \in S :
                  \A y \in S : \/ fl[y].version < fl[x].version
                               \/ fl[y].version = fl[x].version /\ x <= y
       IN <<m>> \o ByVersionDesc(fl, S \ {m})

\* File.findOne(query): the first match in insertion order, NoId when none
FindOne(S) == IF S = {} THEN NoId ELSE CHOOSE x \in S : \A y \in S : x <= y

NameTaken(fl, folder, name) ==
  \E i \in DOMAIN fl :
    fl[i].folder = folder /\ fl[i].filename = name /\ ~fl[i].isDeleted

DiskPut(d, p, bytes) ==
  [q \in DOMAIN d \cup {p} |-> IF q = p THEN bytes ELSE d[q]]

DiskRemove(d, p) == [q \in DOMAIN d \ {p} |-> d[q]]

\* ------------------------------------------ POST /folder/:id/files (upload)
\* the state the loop over req.files carries: collections, storage, the
\* savedFiles array, the staged files still in the temp directory, and
\* whether an exception left the loop
UploadState(fl, nid, dk, ds, user) ==
  [files |-> fl, nid |-> nid, disk |-> dk, dirs |-> ds, saved |-> <<>>,
   staged |-> 0, threw |-> FALSE, user |-> user]

\* newFile.save(), the demotion of the other versions and the second save
SaveNewVersion(st, folderId, folderPath, item, versionedName, existing) ==
  LET nextVersion == IF existing = <<>> THEN 1
                     ELSE st.files[existing[1]].version + 1
      top == IF existing = <<>> THEN NoId ELSE existing[1]
      orig == IF top = NoId THEN NoId
              ELSE IF st.files[top].originalFile # NoId
                   THEN st.files[top].originalFile ELSE top
      \* pre('save') of a new document: path from the folder, hash from disk
      relPath == PathJoin(folderPath, versionedName)
      doc == FileDoc(versionedName, item.name, relPath, folderId,
                     Sha256(st.disk[Phys(relPath)]), nextVersion, orig,
                     ApprovalAtUpload(st.user))
  IN IF ~FileUnique(st.files, st.nid, doc)
     THEN [st EXCEPT !.threw = TRUE]
     ELSE LET demoted ==
                [i \in DOMAIN st.files |->
                   IF /\ st.files[i].originalFilename = item.name
                      /\ st.files[i].folder = folderId
                      /\ ~st.files[i].isDeleted
                      /\ existing # <<>>
                   THEN [st.files[i] EXCEPT !.isCurrentVersion = FALSE]
                   ELSE st.files[i]]
              new == [doc EXCEPT !.previousVersions = existing]
          IN [st EXCEPT !.files = demoted @@ (st.nid :> new),
                        !.nid = st.nid + 1,
                        !.saved = st.saved \o
                                  <<[id |-> st.nid, isDuplicate |-> FALSE]>>]

\* one iteration of the loop body for one uploaded file
UploadOne(st, folderId, folderPath, item, format) ==
  LET ds1 == IF Phys(folderPath) \in st.dirs THEN st.dirs
             ELSE CreateDirectory(st.dirs, folderPath)
      existing == ByVersionDesc(st.files,
                                VersionsOf(st.files, folderId, item.name))
      nextVersion == IF existing = <<>> THEN 1
                     ELSE st.files[existing[1]].version + 1
      versionedName == GenerateVersionedName(item.name, nextVersion, format)
      finalPath == Phys(PathJoin(folderPath, versionedName))
      duplicateFile ==
        FindOne({ i \in DOMAIN st.files :
                    /\ st.files[i].folder = folderId
                    /\ st.files[i].fileHash = Sha256(item.bytes)
                    /\ ~st.files[i].isDeleted })
      st1 == [st EXCEPT !.dirs = ds1, !.staged = st.staged + 1]
  IN IF NameTaken(st.files, folderId, versionedName)
     THEN \* `versionedName = availableName` assigns to a const: TypeError
          [st1 EXCEPT !.threw = TRUE]
     ELSE IF finalPath \in DOMAIN st.disk
     THEN st1                                     \* continue: item skipped
     ELSE IF duplicateFile # NoId
     THEN [st1 EXCEPT !.saved = st.saved \o
                        <<[id |-> duplicateFile, isDuplicate |-> TRUE]>>]
     ELSE \* fsp.rename(file.path, finalPath): the staged file moves
          SaveNewVersion([st1 EXCEPT !.staged = st.staged,
                            !.disk = DiskPut(st.disk, finalPath, item.bytes)],
                         folderId, folderPath, item, versionedName, existing)

\* for (const file of uploadedFiles): multer staged every file beforehand
RECURSIVE UploadLoop(_, _, _, _, _)
UploadLoop(st, folderId, folderPath, items, format) ==
  IF items = <<>> \/ st.threw THEN st
  ELSE UploadLoop(UploadOne(st, folderId, folderPath, Head(items), format),
                  folderId, folderPath, Tail(items), format)

\* the response: the catch block unlinks every staged file that is left,
\* those of the items the loop never reached included
UploadResponse(st) ==
  [status |-> IF st.threw THEN 500
              ELSE IF st.saved = <<>> THEN 409 ELSE 201,
   files |-> st.files, nid |-> st.nid, disk |-> st.disk, dirs |-> st.dirs,
   saved |-> st.saved,
   staged |-> IF st.threw THEN 0 ELSE st.staged]

\* "Check access": admins, the folder's creator, and principals whose access
\* entry carries write or admin permission
HasWriteAccess(folder, user) ==
  \/ Role(user) = "admin"
  \/ folder.createdBy = user
  \/ \E k \in DOMAIN folder.access :
       /\ folder.access[k].user = user
       /\ folder.access[k].permission \in {"write", "admin"}

\* the whole handler
UploadFiles(fs, fl, nid, dk, ds, user, folderId, items, format) ==
  IF items = <<>>
  THEN [status |-> 400, files |-> fl, nid |-> nid, disk |-> dk, dirs |-> ds,
        saved |-> <<>>, staged |-> 0]
  ELSE IF ~Exists(fs, folderId)
  THEN [status |-> 404, files |-> fl, nid |-> nid, disk |-> dk, dirs |-> ds,
        saved |-> <<>>, staged |-> Len(items)]
  ELSE IF ~HasWriteAccess(fs[folderId], user)
  THEN [status |-> 403, files |-> fl, nid |-> nid, disk |-> dk, dirs |-> ds,
        saved |-> <<>>, staged |-> Len(items)]
  ELSE UploadResponse(UploadLoop(UploadState(fl, nid, dk, ds, user),
                                 folderId, fs[folderId].path, items, format))

\* what a file request leaves in `last`
FileReq(op, status, id, folder, items, format, saved, staged) ==
  [op |-> op, status |-> status, id |-> id, visits |-> <<>>,
   folder |-> folder, items |-> items, format |-> format,
   saved |-> saved, staged |-> staged]

UploadBy(user, limit, folderId, items, format) ==
  \E r \in {UploadFiles(folders, files, nextFileId, disk, dirs, user,
                        folderId, items, format)} :
  /\ r.nid <= limit + 1
  /\ files' = r.files
  /\ nextFileId' = r.nid
  /\ disk' = r.disk
  /\ dirs' = r.dirs
  /\ last' = FileReq("upload", r.status, NoId, folderId, items, format,
                      r.saved, r.staged)
  /\ UNCHANGED <<users, inflight, odm, folders, nextId>>

\* an upload by the administrator
Upload(folderId, items, format) ==
  UploadBy(Admin, MaxFiles, folderId, items, format)

\* ------------------------------------- DELETE /folder/files/:id (delete)
\* a handler that removes the record and leaves the bytes where they are
DeleteFileDocKeepingBytes(fl, dk, id) ==
  IF id \notin DOMAIN fl
  THEN [status |-> 404, files |-> fl, disk |-> dk, unlinked |-> FALSE]
  ELSE [status |-> 200,
        files |-> [j \in DOMAIN fl \ {id} |-> fl[j]],
        disk |-> dk,
        unlinked |-> Phys(fl[id].path) \in DOMAIN dk]

\* unlink tolerates a missing file; file.deleteOne() then removes the record.
\* `unlinked` tells whether fsp.unlink found the file.
DeleteFileDoc(fl, dk, id) ==
  IF id \notin DOMAIN fl
  THEN [status |-> 404, files |-> fl, disk |-> dk, unlinked |-> FALSE]
  ELSE [status |-> 200,
        files |-> [j \in DOMAIN fl \ {id} |-> fl[j]],
        disk |-> DiskRemove(dk, Phys(fl[id].path)),
        unlinked |-> Phys(fl[id].path) \in DOMAIN dk]

\* what a file delete leaves in `last`
DeleteReq(status, id, unlinked) ==
  [op |-> "deleteFile", status |-> status, id |-> id, visits |-> <<>>,
   folder |-> NoId, items |-> <<>>, format |-> "", saved |-> <<>>,
   staged |-> 0, unlinked |-> unlinked]

DeleteFile(id) ==
  \E r \in {DeleteFileDoc(files, disk, id)} :
  /\ files' = r.files
  /\ disk' = r.disk
  /\ last' = DeleteReq(r.status, id, r.unlinked)
  /\ UNCHANGED <<users, inflight, odm, folders, nextId, dirs, nextFileId>>

\* ------------------------------- PATCH /folder/files/:id/rename (rename)
\* fsp.rename replaces whatever regular file is at the target
DiskMove(dk, from, to) ==
  IF from = to THEN dk ELSE DiskRemove(DiskPut(dk, to, dk[from]), from)

RenameFileDoc(fs, fl, dk, ds, id, newName) ==
  IF id \notin DOMAIN fl THEN [status |-> 404, files |-> fl, disk |-> dk]
  ELSE IF ~Exists(fs, fl[id].folder)
  THEN \* folder.path on null throws
       [status |-> 500, files |-> fl, disk |-> dk]
  ELSE LET newPath == PathJoin(fs[fl[id].folder].path, newName)
           fullOldPath == Phys(fl[id].path)
           fullNewPath == Phys(newPath)
       IN IF fullOldPath \notin DOMAIN dk \/ DirPrefix(fullNewPath) \notin ds
          THEN \* ENOENT
               [status |-> 500, files |-> fl, disk |-> dk]
          ELSE LET dk1 == DiskMove(dk, fullOldPath, fullNewPath)
                   doc == [fl[id] EXCEPT !.filename = newName,
                                         !.originalFilename = newName,
                                         !.path = newPath,
                                         !.fileHash =
                                           IF newPath # fl[id].path
                                           THEN Sha256(dk1[fullNewPath])
                                           ELSE fl[id].fileHash]
               IN IF FileUnique(fl, id, doc)
                  THEN [status |-> 200, files |-> [fl EXCEPT ![id] = doc],
                        disk |-> dk1]
                  ELSE [status |-> 500, files |-> fl, disk |-> dk1]

RenameFile(id, newName) ==
  \E r \in {RenameFileDoc(folders, files, disk, dirs, id, newName)} :
  /\ files' = r.files
  /\ disk' = r.disk
  /\ last' = FileReq("rename", r.status, id, NoId, <<>>, "", <<>>, 0)
  /\ UNCHANGED <<users, inflight, odm, folders, nextId, dirs, nextFileId>>

\* -------------------------------- POST /folder/files/:id/restore (restore)
\* File.findOne({originalFile: v.originalFile || v._id,
\*               isCurrentVersion: true})
CurrentVersionFor(fl, id) ==
  LET root == IF fl[id].originalFile # NoId THEN fl[id].originalFile ELSE id
  IN FindOne({ i \in DOMAIN fl :
                 fl[i].originalFile = root /\ fl[i].isCurrentVersion })

\* The copy is made before the save.  fsp.copyFile is handed the record's
\* path as stored, which is relative: it resolves against the working
\* directory of the process (that of app.js), not against STORAGE_ROOT, and
\* no such file is there.
CopyResolves == FALSE

\* The new document is a copy of the restored one; pre('save') sets its
\* path from its folder and filename, and the unique indexes judge the insert.
RestoreFileDoc(fs, fl, nid, dk, ds, id) ==
  IF id \notin DOMAIN fl
  THEN [status |-> 404, files |-> fl, nid |-> nid, disk |-> dk]
  ELSE LET cur == CurrentVersionFor(fl, id) IN
       IF cur = NoId
       THEN [status |-> 400, files |-> fl, nid |-> nid, disk |-> dk]
       ELSE LET v == fl[id]
                newPath == PathJoin(DirPrefix(v.path),
                             GenerateVersionedName(v.originalFilename,
                                                   fl[cur].version + 1,
                                                   "number"))
                copied == /\ CopyResolves
                          /\ Phys(v.path) \in DOMAIN dk
                          /\ DirPrefix(Phys(newPath)) \in ds
                dk1 == IF copied
                       THEN DiskPut(dk, Phys(newPath), dk[Phys(v.path)])
                       ELSE dk
                relPath == IF Exists(fs, v.folder)
                           THEN PathJoin(fs[v.folder].path, v.filename)
                           ELSE newPath
                doc == [v EXCEPT !.version = fl[cur].version + 1,
                                 !.isCurrentVersion = TRUE,
                                 !.previousVersions =
                                   fl[cur].previousVersions \o <<cur>>,
                                 !.path = relPath,
                                 !.fileHash =
                                   IF Phys(relPath) \in DOMAIN dk1
                                   THEN Sha256(dk1[Phys(relPath)])
                                   ELSE v.fileHash]
            IN IF copied /\ Exists(fs, v.folder) /\ FileUnique(fl, nid, doc)
               THEN [status |-> 200,
                     files |-> [i \in DOMAIN fl |->
                                 IF /\ i \in {id, cur}
                                    /\ fl[i].originalFilename
                                         = v.originalFilename
                                 THEN [fl[i] EXCEPT
                                         !.isCurrentVersion = FALSE]
                                 ELSE fl[i]] @@ (nid :> doc),
                     nid |-> nid + 1, disk |-> dk1]
               ELSE [status |-> 500, files |-> fl, nid |-> nid,
                     disk |-> dk1]

Restore(id) ==
  \E r \in {RestoreFileDoc(folders, files, nextFileId, disk, dirs, id)} :
  /\ r.nid <= MaxFiles + 1
  /\ files' = r.files
  /\ nextFileId' = r.nid
  /\ disk' = r.disk
  /\ last' = FileReq("restore", r.status, id, NoId, <<>>, "", <<>>, 0)
  /\ UNCHANGED <<users, inflight, odm, folders, nextId, dirs>>

\* ------------------------------------------------ File.findVersions(fileId)
\* .sort({version: 1}); records of one version stay in insertion order
RECURSIVE ByVersionAsc(_, _)
ByVersionAsc(fl, S) ==
  IF S = {} THEN <<>>
  ELSE LET m == CHOOSE x \in S :
                  \A y \in S : \/ fl[x].version < fl[y].version
                               \/ fl[x].version = fl[y].version /\ x <= y
       IN <<m>> \o ByVersionAsc(fl, S \ {m})

\* the ids of the returned documents; <<>> stands for null as well
FindVersions(fl, id) ==
  IF id \notin DOMAIN fl THEN <<>>
  ELSE LET originalFileId == IF fl[id].originalFile # NoId
                             THEN fl[id].originalFile ELSE id
       IN ByVersionAsc(fl, { i \in DOMAIN fl :
                               i = originalFileId
                                 \/ fl[i].originalFile = originalFileId })

\* ----------------------------------------------- the file version manager
\* Two root folders, made by POST {name: a} and POST {name: b}; then
\* uploads, file renames, restores and file deletes.
Root1 == CreateFolder(<<>>, {}, 1, A, NoId)
Root2 == CreateFolder(Root1.folders, Root1.dirs, 2, B, NoId)

UploadNames == { <<"r", ".", "p">> }
RenameTargets == { <<"r", ".", "p">>, <<"x", ".", "p">> }
Bytes == 1..MaxBytes

\* Contents the store has never seen are interchangeable: a request carries
\* bytes that are on disk already, or the first ones that are not.
KnownBytes == { disk[p] : p \in DOMAIN disk }
RequestBytes ==
  KnownBytes \cup { b \in Bytes \ KnownBytes :
                     \A c \in Bytes \ KnownBytes : b <= c }
Items == [name : UploadNames, bytes : RequestBytes]

RECURSIVE Batches(_)
Batches(n) ==
  IF n = 0 THEN { <<>> }
  ELSE Batches(n - 1) \cup
       { <<it>> \o b : it \in Items,
                       b \in { c \in Batches(n - 1) : Len(c) = n - 1 } }

InitFiles ==
  /\ folders = Root2.folders
  /\ nextId = 3
  /\ dirs = Root2.dirs
  /\ last = [op |-> "create", status |-> Root2.status, id |-> NoId,
             visits |-> <<>>]
  /\ files = <<>>
  /\ nextFileId = 1
  /\ disk = <<>>
  /\ odm = 6
  /\ inflight = <<>>
  /\ users = Principals

NextFiles ==
  \/ \E f \in DOMAIN folders, b \in Batches(MaxBatch) \ { <<>> } :
        Upload(f, b, "number")
  \/ \E i \in DOMAIN files : DeleteFile(i)

SpecFiles == InitFiles /\ [][NextFiles]_vars

NextVersions ==
  \/ \E b \in Batches(MaxBatch) \ { <<>> }, fmt \in VersionFormats :
        Upload(1, b, fmt)
  \/ \E i \in DOMAIN files : DeleteFile(i)
  \/ \E i \in DOMAIN files, n \in RenameTargets : RenameFile(i, n)
  \/ \E i \in DOMAIN files : Restore(i)

SpecVersions == InitFiles /\ [][NextVersions]_vars

\* ------------------------------------------------------- the batch uploads
\* Folder 1; requests that carry up to MaxBatchFiles files, in both name
\* formats, and file deletes.  A file of a request carries bytes the store
\* holds already or one of the first MaxBatchFiles contents it does not.
RECURSIVE FirstOf(_, _)
FirstOf(S, n) ==
  IF n = 0 \/ S = {} THEN {}
  ELSE LET m == CHOOSE x \in S : \A y \in S : x <= y
       IN {m} \cup FirstOf(S \ {m}, n - 1)

BatchBytes == KnownBytes \cup FirstOf(Bytes \ KnownBytes, MaxBatchFiles)
BatchItems == [name : UploadNames, bytes : BatchBytes]

RECURSIVE BatchesOver(_, _)
BatchesOver(S, n) ==
  IF n = 0 THEN { <<>> }
  ELSE BatchesOver(S, n - 1) \cup
       { <<it>> \o b : it \in S,
                       b \in { c \in BatchesOver(S, n - 1) : Len(c) = n - 1 } }

NextBatch ==
  \/ \E b \in BatchesOver(BatchItems, MaxBatchFiles) \ { <<>> },
        fmt \in VersionFormats : Upload(1, b, fmt)
  \/ \E i \in DOMAIN files : DeleteFile(i)

SpecBatch == InitFiles /\ [][NextBatch]_vars

\* ========================================================= access and review
\* ----------------------------------------------- validateFolderAccess(f, u)
\* Folder.findOne({_id, $or: [{createdBy}, {"access.user"}, {isPublic: true}]})
\* The Folder schema is strict and declares no path isPublic, so no stored
\* document carries it: the third branch selects nothing.
ValidateFolderAccess(fs, folderId, userId) ==
  /\ Exists(fs, folderId)
  /\ \/ fs[folderId].createdBy = userId
     \/ \E k \in DOMAIN fs[folderId].access :
          fs[folderId].access[k].user = userId

\* ------------------------------------------------------- GET /folder (list)
\* the ids of the folders returned; no parent filter in the query string
ListFolders(fs, user) ==
  IF Role(user) = "admin" THEN DOMAIN fs
  ELSE { f \in DOMAIN fs :
           \/ fs[f].createdBy = user
           \/ \E k \in DOMAIN fs[f].access : fs[f].access[k].user = user
           \/ fs[f].isSystemFolder }

\* what a read request leaves in `last`: the caller and the ids it was shown
ReadReq(op, status, user, id, shown) ==
  [op |-> op, status |-> status, id |-> id, visits |-> <<>>, user |-> user,
   shown |-> shown]

List(user) ==
  /\ last' = ReadReq("list", 200, user, NoId, ListFolders(folders, user))
  /\ UNCHANGED <<users, inflight, odm, folders, nextId, dirs, files, nextFileId, disk>>

\* ------------------------------------------- POST /folder/:id/access (grant)
Permissions == { "read", "write", "admin" }
NoPermission == "none"      \* a request that carries no permission

AccessEntry(user, permission) ==
  [user |-> user, permission |-> permission, grantedAt |-> Now]

\* a handler that pushes an entry whether or not the user has one
GrantAccessAppending(fs, folderId, user, permission) ==
  IF permission \notin Permissions THEN [status |-> 400, folders |-> fs]
  ELSE IF user \notin Users THEN [status |-> 404, folders |-> fs]
  ELSE IF ~Exists(fs, folderId) THEN [status |-> 404, folders |-> fs]
  ELSE [status |-> 200,
        folders |-> [fs EXCEPT ![folderId].access =
                       Append(@, AccessEntry(user, permission))]]

\* folder.access.find(...) takes the first entry of the user; folder.save()
GrantAccess(fs, folderId, user, permission) ==
  IF permission \notin Permissions THEN [status |-> 400, folders |-> fs]
  ELSE IF user \notin Users THEN [status |-> 404, folders |-> fs]
  ELSE IF ~Exists(fs, folderId) THEN [status |-> 404, folders |-> fs]
  ELSE LET acc == fs[folderId].access
           found == { k \in DOMAIN acc : acc[k].user = user }
       IN [status |-> 200,
           folders |->
             [fs EXCEPT ![folderId].access =
                IF found = {} THEN Append(acc, AccessEntry(user, permission))
                ELSE [acc EXCEPT ![FindOne(found)] =
                        AccessEntry(user, permission)]]]

\* what an access request leaves in `last`
AccessReq(op, status, id, user, permission) ==
  [op |-> op, status |-> status, id |-> id, visits |-> <<>>, user |-> user,
   permission |-> permission]

Grant(folderId, user, permission) ==
  \E r \in {GrantAccess(folders, folderId, user, permission)} :
  /\ folders' = r.folders
  /\ last' = AccessReq("grant", r.status, folderId, user, permission)
  /\ UNCHANGED <<users, inflight, odm, nextId, dirs, files, nextFileId, disk>>

\* ---------------------------------------- DELETE /folder/:id/access (revoke)
\* $pull: {access: {user: userId}} removes every entry of the user
RECURSIVE Pull(_, _)
Pull(acc, user) ==
  IF acc = <<>> THEN <<>>
  ELSE IF Head(acc).user = user THEN Pull(Tail(acc), user)
  ELSE <<Head(acc)>> \o Pull(Tail(acc), user)

RevokeAccess(fs, folderId, userId) ==
  IF ~Exists(fs, folderId) THEN [status |-> 404, folders |-> fs]
  ELSE [status |-> 200,
        folders |-> [fs EXCEPT ![folderId].access = Pull(@, userId)]]

Revoke(folderId, userId) ==
  \E r \in {RevokeAccess(folders, folderId, userId)} :
  /\ folders' = r.folders
  /\ last' = AccessReq("revoke", r.status, folderId, userId, NoPermission)
  /\ UNCHANGED <<users, inflight, odm, nextId, dirs, files, nextFileId, disk>>

\* ------------------------------ PATCH /folder/files/:fileId/approval (review)
Space == " "

\* String.prototype.trim over the characters of the model
RECURSIVE TrimStart(_)
TrimStart(s) ==
  IF s # <<>> /\ Head(s) = Space THEN TrimStart(Tail(s)) ELSE s

RECURSIVE TrimEnd(_)
TrimEnd(s) ==
  IF s # <<>> /\ s[Len(s)] = Space THEN TrimEnd(SubSeq(s, 1, Len(s) - 1))
  ELSE s

Trim(s) == TrimEnd(TrimStart(s))

\* !reason?.trim()
NoReason(reason) == reason = Absent \/ Trim(reason) = <<>>

\* updateData applied to one document.  It names the fields of the other
\* verdict with the value undefined: the update writes null to them or
\* leaves them as they are, as the ODM decides.
ApplyVerdict(f, v, reviewer, status, reason) ==
  LET clear == UndefinedWritesNull(v) IN
  IF status = "approved"
  THEN [f EXCEPT !.approvalStatus = status,
                 !.approvedBy = reviewer,
                 !.approvedAt = Now,
                 !.rejectedBy = IF clear THEN NoUser ELSE @,
                 !.rejectedAt = IF clear THEN NoTime ELSE @,
                 !.disapprovalReason = IF clear THEN Absent ELSE @]
  ELSE [f EXCEPT !.approvalStatus = status,
                 !.rejectedBy = reviewer,
                 !.rejectedAt = Now,
                 !.disapprovalReason = Trim(reason),
                 !.approvedBy = IF clear THEN NoUser ELSE @,
                 !.approvedAt = IF clear THEN NoTime ELSE @]

\* a handler that takes a disapproval whatever its reason
SetApprovalAnyReason(fl, v, reviewer, fileId, status, reason) ==
  IF Role(reviewer) \notin {"admin", "sub-admin"}
  THEN [status |-> 403, files |-> fl]
  ELSE IF status \notin {"approved", "disapproved"}
  THEN [status |-> 400, files |-> fl]
  ELSE IF fileId \notin DOMAIN fl THEN [status |-> 404, files |-> fl]
  ELSE [status |-> 200,
        files |-> [fl EXCEPT ![fileId] =
                     ApplyVerdict(@, v, reviewer, status, reason)]]

\* auth(['admin', 'sub-admin']), the checks of the body, then
\* File.findByIdAndUpdate(fileId, updateData)
SetApprovalDoc(fl, v, reviewer, fileId, status, reason) ==
  IF Role(reviewer) \notin {"admin", "sub-admin"}
  THEN [status |-> 403, files |-> fl]
  ELSE IF status \notin {"approved", "disapproved"}
  THEN [status |-> 400, files |-> fl]
  ELSE IF status = "disapproved" /\ NoReason(reason)
  THEN [status |-> 400, files |-> fl]
  ELSE IF fileId \notin DOMAIN fl THEN [status |-> 404, files |-> fl]
  ELSE [status |-> 200,
        files |-> [fl EXCEPT ![fileId] =
                     ApplyVerdict(@, v, reviewer, status, reason)]]

\* what a review request leaves in `last`
ReviewReq(status, user, id, decision, reason) ==
  [op |-> "approval", status |-> status, id |-> id, visits |-> <<>>,
   user |-> user, decision |-> decision, reason |-> reason]

SetApproval(reviewer, fileId, status, reason) ==
  \E r \in {SetApprovalDoc(files, odm, reviewer, fileId, status, reason)} :
  /\ files' = r.files
  /\ last' = ReviewReq(r.status, reviewer, fileId, status, reason)
  /\ UNCHANGED <<users, inflight, odm, folders, nextId, dirs, nextFileId, disk>>

\* ------------------------------------------- GET /folder/:id (folder contents)
\* the visibility filter of the file query
ListedTo(f, user) ==
  \/ Role(user) \in {"admin", "sub-admin"}
  \/ f.approvalStatus = "approved"
  \/ f.uploadedBy = user

\* permissions.canUpload of the answer: the role, or some entry of the
\* folder's access list, whoever's it is, that carries "write"
CanUpload(folder, user) ==
  \/ Role(user) = "admin"
  \/ Role(user) = "sub-admin"
  \/ \E k \in DOMAIN folder.access : folder.access[k].permission = "write"

GetFolderDoc(fs, fl, user, id) ==
  IF ~Exists(fs, id) THEN [status |-> 404, shown |-> {}, canUpload |-> FALSE]
  ELSE IF ~ValidateFolderAccess(fs, id, user)
  THEN [status |-> 403, shown |-> {}, canUpload |-> FALSE]
  ELSE [status |-> 200,
        shown |-> { i \in DOMAIN fl : /\ fl[i].folder = id
                                      /\ ~fl[i].isDeleted
                                      /\ ListedTo(fl[i], user) },
        canUpload |-> CanUpload(fs[id], user)]

GetFolder(user, id) ==
  \E r \in {GetFolderDoc(folders, files, user, id)} :
  /\ last' = ReadReq("contents", r.status, user, id, r.shown)
               @@ [canUpload |-> r.canUpload]
  /\ UNCHANGED <<users, inflight, odm, folders, nextId, dirs, files, nextFileId, disk>>

\* ------------------------------------- GET /folder/files/:fileId (details)
GetFileDoc(fl, user, fileId) ==
  IF fileId \notin DOMAIN fl THEN [status |-> 404, shown |-> {}]
  ELSE IF \/ Role(user) \in {"admin", "sub-admin"}
          \/ fl[fileId].uploadedBy = user
          \/ fl[fileId].owner = user
          \/ fl[fileId].approvalStatus = "approved"
  THEN [status |-> 200, shown |-> {fileId}]
  ELSE [status |-> 403, shown |-> {}]

GetFile(user, fileId) ==
  \E r \in {GetFileDoc(files, user, fileId)} :
  /\ last' = ReadReq("details", r.status, user, fileId, r.shown)
  /\ UNCHANGED <<users, inflight, odm, folders, nextId, dirs, files, nextFileId, disk>>

\* ------------- GET /folder/files/:id/download and GET /folder/files/:id/info
\* the permission check the two routes share; a file whose folder is gone
\* populates to null
FileAccess(fs, fl, user, fileId) ==
  \/ Role(user) = "admin"
  \/ fl[fileId].uploadedBy = user
  \/ /\ Exists(fs, fl[fileId].folder)
     /\ ValidateFolderAccess(fs, fl[fileId].folder, user)

DownloadDoc(fs, fl, dk, user, fileId) ==
  IF fileId \notin DOMAIN fl THEN [status |-> 404, shown |-> {}]
  ELSE IF ~FileAccess(fs, fl, user, fileId)
  THEN [status |-> 403, shown |-> {}]
  ELSE IF Phys(fl[fileId].path) \notin DOMAIN dk
  THEN [status |-> 404, shown |-> {}]
  ELSE [status |-> 200, shown |-> {fileId}]

Download(user, fileId) ==
  \E r \in {DownloadDoc(folders, files, disk, user, fileId)} :
  /\ last' = ReadReq("download", r.status, user, fileId, r.shown)
  /\ UNCHANGED <<users, inflight, odm, folders, nextId, dirs, files, nextFileId, disk>>

InfoDoc(fs, fl, user, fileId) ==
  IF fileId \notin DOMAIN fl THEN [status |-> 404, shown |-> {}]
  ELSE IF ~FileAccess(fs, fl, user, fileId)
  THEN [status |-> 403, shown |-> {}]
  ELSE [status |-> 200, shown |-> {fileId}]

Info(user, fileId) ==
  \E r \in {InfoDoc(folders, files, user, fileId)} :
  /\ last' = ReadReq("info", r.status, user, fileId, r.shown)
  /\ UNCHANGED <<users, inflight, odm, folders, nextId, dirs, files, nextFileId, disk>>

\* ------------------------------ GET /folder/files/:id/versions (versions)
VersionsDoc(fs, fl, user, fileId) ==
  LET versions == FindVersions(fl, fileId) IN
  IF versions = <<>> THEN [status |-> 404, shown |-> {}]
  ELSE IF \/ Role(user) = "admin"
          \/ fl[versions[1]].owner = user
          \/ /\ Exists(fs, fl[versions[1]].folder)
             /\ ValidateFolderAccess(fs, fl[versions[1]].folder, user)
  THEN [status |-> 200, shown |-> { versions[k] : k \in DOMAIN versions }]
  ELSE [status |-> 403, shown |-> {}]

Versions(user, fileId) ==
  \E r \in {VersionsDoc(folders, files, user, fileId)} :
  /\ last' = ReadReq("versions", r.status, user, fileId, r.shown)
  /\ UNCHANGED <<users, inflight, odm, folders, nextId, dirs, files, nextFileId, disk>>

\* ------------------------------------------------------- the review desk
\* One folder made by the administrator, who then granted write access to
\* u1 and to the sub-admin and read access to u2; uploads and verdicts by
\* the administrator, the sub-admin and u1.
Grant1 == GrantAccess(Root1.folders, 1, U1, "write")
Grant2 == GrantAccess(Grant1.folders, 1, U2, "read")
Grant3 == GrantAccess(Grant2.folders, 1, SubAdmin, "write")

Verdicts == { "approved", "disapproved", "pending" }
Reasons == { Absent, <<>>, <<Space>>, <<Space, "n">> }
ReviewFileIds == 1..MaxReviewFiles
Staff == { Admin, SubAdmin, U1 }

InitReview ==
  /\ folders = Grant3.folders
  /\ nextId = 2
  /\ dirs = Root1.dirs
  /\ last = AccessReq("grant", Grant3.status, 1, SubAdmin, "write")
  /\ files = <<>>
  /\ nextFileId = 1
  /\ disk = <<>>
  /\ odm \in OdmVersions
  /\ inflight = <<>>
  /\ users = Principals

NextReview ==
  \/ \E u \in Staff, b \in Batches(MaxBatch) \ { <<>> } :
        UploadBy(u, MaxReviewFiles, 1, b, "number")
  \/ \E u \in Staff, i \in ReviewFileIds, s \in Verdicts, r \in Reasons :
        SetApproval(u, i, s, r)

SpecReview == InitReview /\ [][NextReview]_vars

\* ------------------------------------------------------ the reading room
\* The same folder; uploads by the administrator, u1 and u2, verdicts of
\* the administrator, and the read operations by every principal.
Uploaders == { Admin, U1, U2 }
GivenReason == <<"n">>

NextReads ==
  \/ \E u \in Uploaders, b \in Batches(MaxBatch) \ { <<>> } :
        UploadBy(u, MaxReviewFiles, 1, b, "number")
  \/ \E i \in DOMAIN files, s \in { "approved", "disapproved" } :
        SetApproval(Admin, i, s, GivenReason)
  \/ \E u \in Users : GetFolder(u, 1)
  \/ \E u \in Users, i \in ReviewFileIds : GetFile(u, i)
  \/ \E u \in Users, i \in ReviewFileIds : Download(u, i)
  \/ \E u \in Users, i \in ReviewFileIds : Info(u, i)
  \/ \E u \in Users, i \in ReviewFileIds : Versions(u, i)

SpecReads == InitReview /\ [][NextReads]_vars

\* ------------------------------------------------------ the access desk
\* Two root folders; the second is a system folder, which no route makes:
\* the collection is seeded with it.  Grants and revokes on the first
\* folder and on a folder that does not exist, listings, folder reads.
SeededFolders == [Root2.folders EXCEPT ![2].isSystemFolder = TRUE]

Grantees == { SubAdmin, U1, U2 }
GrantFolders == { 1, 3 }
GrantPermissions == Permissions \cup { "owner" }

InitAccess ==
  /\ folders = SeededFolders
  /\ nextId = 3
  /\ dirs = Root2.dirs
  /\ last = [op |-> "create", status |-> Root2.status, id |-> NoId,
             visits |-> <<>>]
  /\ files = <<>>
  /\ nextFileId = 1
  /\ disk = <<>>
  /\ odm \in OdmVersions
  /\ inflight = <<>>
  /\ users = Principals

NextAccess ==
  \/ \E f \in GrantFolders, u \in Grantees, p \in GrantPermissions :
        Grant(f, u, p)
  \/ \E f \in GrantFolders, u \in Grantees : Revoke(f, u)
  \/ \E u \in Users : List(u)
  \/ \E u \in Users, f \in DOMAIN folders : GetFolder(u, f)

SpecAccess == InitAccess /\ [][NextAccess]_vars

\* ================================================== download and preview
\* ------------------------------------------------------- the Range header
\* String.prototype.split with a one-character separator
RECURSIVE Split(_, _)
Split(s, sep) ==
  LET idx == { i \in 1..Len(s) : s[i] = sep } IN
  IF idx = {} THEN <<s>>
  ELSE LET k == CHOOSE i \in idx : \A j \in idx : i <= j
       IN <<SubSeq(s, 1, k - 1)>> \o Split(SubSeq(s, k + 1, Len(s)), sep)

NaN == -1      \* the result of parseInt where there is no number

DigitValue(c) == CHOOSE d \in 0..9 : DigitChars[d + 1] = c

IsDigit(c) == \E d \in 0..9 : DigitChars[d + 1] = c

\* parseInt(s, 10) of a text without sign or leading blanks: the digits at
\* its start, NaN when it starts with none
RECURSIVE ParseDigits(_, _)
ParseDigits(s, acc) ==
  IF s = <<>> \/ ~IsDigit(Head(s)) THEN acc
  ELSE ParseDigits(Tail(s), 10 * acc + DigitValue(Head(s)))

ParseInt(s) ==
  IF s = <<>> \/ ~IsDigit(Head(s)) THEN NaN ELSE ParseDigits(s, 0)

\* arithmetic that carries NaN
Minus(a, b) == IF a = NaN \/ b = NaN THEN NaN ELSE a - b
Plus(a, b) == IF a = NaN \/ b = NaN THEN NaN ELSE a + b

BytesEq == <<"b", "y", "t", "e", "s", "=">>

\* range.replace(/bytes=/, "").split("-"), parseInt of the parts
RangeOf(range, size) ==
  LET parts == Split(Replace(range, BytesEq, <<>>), "-")
      start == ParseInt(parts[1])
      end == IF Len(parts) >= 2 /\ parts[2] # <<>> THEN ParseInt(parts[2])
             ELSE size - 1
  IN [start |-> start, end |-> end,
      chunkSize |-> Plus(Minus(end, start), 1)]

\* ------------------------------------------------------- the stored object
LargeFile == 10 * 1024 * 1024

\* stats.size of the object that holds the bytes.  Objects beyond 5 MiB
\* are those of a deployment that sets MAX_FILE_SIZE (utils/multer.js 51).
SizeOf(bytes) ==
  IF bytes = 1 THEN 4 ELSE IF bytes = 2 THEN LargeFile + 1 ELSE LargeFile

IsVideo(mimetype) == mimetype = "video/mp4"

\* ------------------------------------------ GET /folder/files/:id/download
\* a transfer in flight: the response head, the read stream and its place,
\* whether the pipe is feeding the response, the state of the consumer,
\* whether the handlers that call cleanup() are registered, and whether the
\* preview timer was set: the code sets it after those handlers, on the
\* path the range branch has left by then
Transfer(user, fileId, status, declared, from, upto, guarded, preview) ==
  [kind |-> "download", user |-> user, file |-> fileId, status |-> status,
   declared |-> declared, from |-> from, upto |-> upto, pos |-> from,
   chunks |-> 0, stream |-> "open", flowing |-> TRUE,
   consumer |-> "connected", guarded |-> guarded, preview |-> preview,
   timer |-> guarded /\ preview, isRequestCompleted |-> FALSE]

Min(a, b) == IF a <= b THEN a ELSE b
Max(a, b) == IF a >= b THEN a ELSE b

\* the handler from the permission check to fileStream.pipe(res).
\* fs.createReadStream throws on a start or end that is no integer and on
\* start > end; the catch block answers 500.  A stream delivers the bytes
\* from start to end that the file has.
ServeFile(fs, fl, dk, user, fileId, range, preview) ==
  LET head == DownloadDoc(fs, fl, dk, user, fileId) IN
  IF head.status # 200
  THEN [status |-> head.status, partial |-> FALSE, transfer |-> <<>>]
  ELSE LET size == SizeOf(dk[Phys(fl[fileId].path)]) IN
       IF range # Absent /\ range # <<>>
          /\ ( IsVideo(fl[fileId].mimetype) \/ size > LargeFile )
       THEN LET r == RangeOf(range, size) IN
            IF r.start = NaN \/ r.end = NaN \/ r.start > r.end
            THEN [status |-> 500, partial |-> TRUE, transfer |-> <<>>]
            ELSE [status |-> 206, partial |-> TRUE,
                  transfer |->
                    <<Transfer(user, fileId, 206, r.chunkSize, r.start,
                               Max(r.start, Min(r.end + 1, size)), FALSE,
                               preview)>>]
       ELSE [status |-> 200, partial |-> FALSE,
             transfer |->
               <<Transfer(user, fileId, 200, size, 0, size, TRUE, preview)>>]

\* what the start of a download leaves in `last`
DownloadReq(status, user, id, range, transfer) ==
  [op |-> "serve", status |-> status, id |-> id, visits |-> <<>>,
   user |-> user, range |-> range, transfer |-> transfer]

\* one transfer is in flight at a time
Slot == 1

InFlight == Slot \in DOMAIN inflight

GetDownload(user, fileId, range, preview) ==
  \E r \in {ServeFile(folders, files, disk, user, fileId, range, preview)} :
  /\ inflight' = IF r.transfer = <<>> THEN <<>>
                 ELSE (Slot :> r.transfer[1])
  /\ last' = DownloadReq(r.status, user, fileId, range, r.transfer)
  /\ UNCHANGED <<users, odm, folders, nextId, dirs, files, nextFileId, disk>>

\* what an event of a transfer leaves in `last`
EventReq(event) ==
  [op |-> event, status |-> 0, id |-> NoId, visits |-> <<>>]

\* the stream reads its next chunk and hands it to the response; after the
\* last one it ends and closes its file (autoClose)
StreamRead ==
  /\ InFlight
  /\ LET t == inflight[Slot] IN
     /\ t.stream = "open"
     /\ t.flowing
     /\ \E n \in { t.upto } \cup
                { k \in { t.pos + 1 } : k < t.upto /\ t.chunks + 1 < MaxChunks } :
          inflight' = (Slot :> [t EXCEPT
                         !.pos = n,
                         !.chunks = t.chunks + 1,
                         !.stream = IF n = t.upto THEN "ended" ELSE "open",
                         !.isRequestCompleted = @ \/ (n = t.upto /\ t.guarded)])
  /\ last' = EventReq("data")
  /\ UNCHANGED <<users, odm, folders, nextId, dirs, files, nextFileId, disk>>

\* cleanup(reason): fileStream.destroy() unless it is destroyed
Cleanup(t) ==
  [t EXCEPT !.stream = IF t.stream = "open" THEN "destroyed" ELSE @,
            !.isRequestCompleted = TRUE]

\* an event of the consumer's side during a transfer.  The pipe stops
\* feeding a response that closed or failed and leaves the source as it is;
\* the handlers of the full transfer call cleanup().
ConsumerEvent(event, state) ==
  /\ InFlight
  /\ LET t == inflight[Slot] IN
     /\ t.stream = "open"
     /\ t.consumer = "connected"
     /\ inflight' = (Slot :> [ (IF t.guarded THEN Cleanup(t) ELSE t)
                                EXCEPT !.flowing = FALSE,
                                       !.consumer = state ])
  /\ last' = EventReq(event)
  /\ UNCHANGED <<users, odm, folders, nextId, dirs, files, nextFileId, disk>>

\* req.on("close"): the consumer went away
ClientDisconnect == ConsumerEvent("close", "disconnected")

\* req.on("aborted")
RequestAborted == ConsumerEvent("aborted", "aborted")

\* res.on("error")
ResponseError == ConsumerEvent("error", "errored")

\* the 45 second timer of a preview request
PreviewTimeout ==
  /\ InFlight
  /\ LET t == inflight[Slot] IN
     /\ t.timer
     /\ ~t.isRequestCompleted
     /\ inflight' = (Slot :> [Cleanup(t) EXCEPT !.flowing = FALSE])
  /\ last' = EventReq("timeout")
  /\ UNCHANGED <<users, odm, folders, nextId, dirs, files, nextFileId, disk>>

\* -------------------------------------------------------- the download desk
\* Folder 1 with three objects uploaded by the administrator: a video of 4
\* bytes, a document one byte over 10 MiB and a document of 10 MiB.
SmallName == <<"m", Dot, "p">>
PaperName == <<"r", Dot, "p">>
OtherName == <<"s", Dot, "p">>

Stored1 == UploadFiles(Root1.folders, <<>>, 1, <<>>, Root1.dirs, Admin, 1, <<[name |-> SmallName, bytes |-> 1]>>, "number")
Stored2 == UploadFiles(Root1.folders, Stored1.files, Stored1.nid, Stored1.disk, Stored1.dirs, Admin, 1, <<[name |-> PaperName, bytes |-> 2]>>, "number")
Stored3 == UploadFiles(Root1.folders, Stored2.files, Stored2.nid, Stored2.disk, Stored2.dirs, Admin, 1, <<[name |-> OtherName, bytes |-> 3]>>, "number")

RangeHeaders ==
  { Absent,
    BytesEq \o <<"0", "-", "1">>,
    BytesEq \o <<"1", "-">>,
    BytesEq \o <<"-", "2">>,
    BytesEq \o <<"2", "-", "9">>,
    BytesEq \o <<"2", "-", "9", "9", "9", "9", "9", "9", "9", "9">>,
    BytesEq \o <<"3", "-", "1">>,
    BytesEq \o <<"x", "-", "1">> }

InitDownload ==
  /\ folders = Root1.folders
  /\ nextId = 2
  /\ dirs = Stored3.dirs
  /\ last = FileReq("upload", Stored3.status, NoId, 1, <<>>, "number",
                    Stored3.saved, Stored3.staged)
  /\ files = Stored3.files
  /\ nextFileId = Stored3.nid
  /\ disk = Stored3.disk
  /\ odm = 6
  /\ inflight = <<>>
  /\ users = Principals

NextDownload ==
  \/ \E u \in { Admin, U1 }, i \in DOMAIN files \cup { nextFileId },
        r \in RangeHeaders, p \in BOOLEAN : GetDownload(u, i, r, p)
  \/ StreamRead
  \/ ClientDisconnect
  \/ RequestAborted
  \/ ResponseError
  \/ PreviewTimeout

SpecDownload == InitDownload /\ [][NextDownload]_vars

\* ========================================================= storage adapter
\* The adapter on its own.  In this part a location is named by its absolute
\* path, a sequence of segments, each segment a sequence of characters, so
\* that locations outside the storage root have a name too; `dirs` and
\* `disk` of the adapter's specification hold such paths.
DotDot == <<".", ".">>
SegS == <<"s">>
SegS2 == <<"s", "2">>
SegA == <<"a">>
SegF == <<"f">>

\* STORAGE_ROOT = path.resolve(__dirname, "../storage")
STORAGE_ROOT == <<SegS>>

\* path.join / path.normalize of an absolute path: '..' steps up and stays
\* at the root of the filesystem
RECURSIVE ResolveFrom(_, _)
ResolveFrom(base, segs) ==
  IF segs = <<>> THEN base
  ELSE IF Head(segs) = DotDot
  THEN ResolveFrom(IF base = <<>> THEN base
                   ELSE SubSeq(base, 1, Len(base) - 1), Tail(segs))
  ELSE ResolveFrom(Append(base, Head(segs)), Tail(segs))

\* getFullPath(relativePath)
GetFullPath(relativePath) == ResolveFrom(STORAGE_ROOT, relativePath)

\* the characters of an absolute path
RECURSIVE PathText(_)
PathText(p) ==
  IF p = <<>> THEN <<>> ELSE <<Slash>> \o Head(p) \o PathText(Tail(p))

\* String.prototype.startsWith
StartsWith(s, t) == Len(t) <= Len(s) /\ SubSeq(s, 1, Len(t)) = t

\* q is p or lies below p
Below(p, q) == Len(p) <= Len(q) /\ SubSeq(q, 1, Len(p)) = p

Ancestors(p) == { SubSeq(p, 1, k) : k \in 1..Len(p) }

\* the root of the filesystem is a directory
IsDir(ds, p) == p = <<>> \/ p \in ds

\* what an adapter call hands back: outcome, filesystem, value returned
AdapterResult(status, ds, dk, out) ==
  [status |-> status, dirs |-> ds, disk |-> dk, out |-> out]

NoValue == "void"

\* mkdir(fullPath, {recursive: true}): fails on a component that is a file
Mkdir(ds, dk, fullPath) ==
  IF Ancestors(fullPath) \cap DOMAIN dk # {}
  THEN AdapterResult("error", ds, dk, NoValue)
  ELSE AdapterResult("ok", ds \cup Ancestors(fullPath), dk, NoValue)

\* createDirectory(relativePath)
StorageCreateDirectory(ds, dk, relativePath) ==
  Mkdir(ds, dk, GetFullPath(relativePath))

\* deleteDirectory(relativePath): the guard compares the texts of the paths
StorageDeleteDirectory(ds, dk, relativePath) ==
  LET fullPath == GetFullPath(relativePath) IN
  IF \/ fullPath = STORAGE_ROOT
     \/ ~StartsWith(PathText(fullPath), PathText(STORAGE_ROOT))
  THEN AdapterResult("violation", ds, dk, NoValue)
  ELSE IF ~IsDir(ds, fullPath)
  THEN AdapterResult("error", ds, dk, NoValue)         \* readdir throws
  ELSE AdapterResult("ok", { d \in ds : ~Below(fullPath, d) },
                     [f \in { g \in DOMAIN dk : ~Below(fullPath, g) }
                        |-> dk[f]],
                     NoValue)

\* the path of q after p was renamed to r
Moved(p, r, q) == r \o SubSeq(q, Len(p) + 1, Len(q))

\* fs.rename(fullOldPath, fullNewPath)
FsRename(ds, dk, old, new) ==
  IF old = <<>> THEN AdapterResult("error", ds, dk, NoValue)      \* EBUSY
  ELSE IF old \notin ds /\ old \notin DOMAIN dk
  THEN AdapterResult("error", ds, dk, NoValue)                    \* ENOENT
  ELSE IF old = new THEN AdapterResult("ok", ds, dk, NoValue)
  ELSE IF Below(old, new)
  THEN AdapterResult("error", ds, dk, NoValue)                    \* EINVAL
  ELSE IF old \in ds /\ ( \/ new \in DOMAIN dk
                          \/ \E q \in ds \cup DOMAIN dk :
                               q # new /\ Below(new, q) )
  THEN AdapterResult("error", ds, dk, NoValue)       \* ENOTDIR, ENOTEMPTY
  ELSE IF old \in DOMAIN dk /\ IsDir(ds, new)
  THEN AdapterResult("error", ds, dk, NoValue)                    \* EISDIR
  ELSE AdapterResult("ok",
         { IF Below(old, d) THEN Moved(old, new, d) ELSE d : d \in ds },
         [f \in { IF Below(old, g) THEN Moved(old, new, g) ELSE g :
                    g \in DOMAIN dk \ {new} } |->
            IF Below(new, f) THEN dk[Moved(new, old, f)] ELSE dk[f]],
         NoValue)

\* moveDirectory(oldRelativePath, newRelativePath) and rename(oldPath,
\* newPath): mkdir of the parent of the target, then fs.rename
StorageMoveDirectory(ds, dk, oldRelativePath, newRelativePath) ==
  LET fullOldPath == GetFullPath(oldRelativePath)
      fullNewPath == GetFullPath(newRelativePath)
      made == Mkdir(ds, dk, SubSeq(fullNewPath, 1, Len(fullNewPath) - 1))
  IN IF made.status # "ok" THEN made
     ELSE FsRename(made.dirs, made.disk, fullOldPath, fullNewPath)

StorageRename(ds, dk, oldPath, newPath) ==
  StorageMoveDirectory(ds, dk, oldPath, newPath)

\* pathExists(relativePath): stat
StoragePathExists(ds, dk, relativePath) ==
  LET fullPath == GetFullPath(relativePath) IN
  AdapterResult("ok", ds, dk, IsDir(ds, fullPath) \/ fullPath \in DOMAIN dk)

\* readFile(relativePath)
StorageReadFile(ds, dk, relativePath) ==
  LET fullPath == GetFullPath(relativePath) IN
  IF fullPath \in DOMAIN dk THEN AdapterResult("ok", ds, dk, dk[fullPath])
  ELSE AdapterResult("error", ds, dk, NoValue)

\* what an adapter call leaves in `last`: the function, the locations its
\* arguments resolve to, the outcome and the value returned
AdapterReq(fn, targets, r) ==
  [op |-> "adapter", status |-> r.status, id |-> NoId, visits |-> <<>>,
   fn |-> fn, targets |-> targets, out |-> r.out]

AdapterCall(fn, targets, r) ==
  /\ \A d \in r.dirs : Len(d) <= MaxDepth
  /\ \A f \in DOMAIN r.disk : Len(f) <= MaxDepth
  /\ dirs' = r.dirs
  /\ disk' = r.disk
  /\ last' = AdapterReq(fn, targets, r)
  /\ UNCHANGED <<users, inflight, odm, folders, nextId, files, nextFileId>>

AdapterCreateDirectory(p) ==
  AdapterCall("createDirectory", <<GetFullPath(p)>>,
              StorageCreateDirectory(dirs, disk, p))

AdapterDeleteDirectory(p) ==
  AdapterCall("deleteDirectory", <<GetFullPath(p)>>,
              StorageDeleteDirectory(dirs, disk, p))

AdapterMoveDirectory(p, q) ==
  AdapterCall("moveDirectory", <<GetFullPath(p), GetFullPath(q)>>,
              StorageMoveDirectory(dirs, disk, p, q))

AdapterRename(p, q) ==
  AdapterCall("rename", <<GetFullPath(p), GetFullPath(q)>>,
              StorageRename(dirs, disk, p, q))

AdapterPathExists(p) ==
  AdapterCall("pathExists", <<GetFullPath(p)>>,
              StoragePathExists(dirs, disk, p))

AdapterReadFile(p) ==
  AdapterCall("readFile", <<GetFullPath(p)>>,
              StorageReadFile(dirs, disk, p))

\* The storage root /s with a directory and a file in it, and next to it the
\* directory /s2 with a file in it; relative paths with and without '..'.
RelativePaths ==
  { <<>>, <<SegA>>, <<SegF>>, <<DotDot, SegS2>>, <<DotDot, SegS2, SegF>> }

InitAdapter ==
  /\ dirs = { <<SegS>>, <<SegS, SegA>>, <<SegS2>> }
  /\ disk = ( <<SegS, SegF>> :> 1 ) @@ ( <<SegS2, SegF>> :> 2 )
  /\ last = [op |-> "start", status |-> "ok", id |-> NoId, visits |-> <<>>]
  /\ folders = <<>>
  /\ nextId = 1
  /\ files = <<>>
  /\ nextFileId = 1
  /\ odm = 6
  /\ inflight = <<>>
  /\ users = Principals

NextAdapter ==
  \/ \E p \in RelativePaths : AdapterCreateDirectory(p)
  \/ \E p \in RelativePaths : AdapterDeleteDirectory(p)
  \/ \E p, q \in RelativePaths : AdapterMoveDirectory(p, q)
  \/ \E p, q \in RelativePaths : AdapterRename(p, q)
  \/ \E p \in RelativePaths : AdapterPathExists(p)
  \/ \E p \in RelativePaths : AdapterReadFile(p)

SpecAdapter == InitAdapter /\ [][NextAdapter]_vars

\* =================================================== properties of the tree
\* '/'-joined names of the existing ancestors of id, root first, then its own
RECURSIVE ChainPath(_, _, _)
ChainPath(fs, id, fuel) ==
  LET par == fs[id].parentFolder IN
  IF par = NoId \/ ~Exists(fs, par) \/ fuel = 0 THEN fs[id].name
  ELSE ChainPath(fs, par, fuel - 1) \o <<Slash>> \o fs[id].name

\* number of existing ancestors of id
RECURSIVE AncestorCount(_, _, _)
AncestorCount(fs, id, fuel) ==
  LET par == fs[id].parentFolder IN
  IF par = NoId \/ ~Exists(fs, par) \/ fuel = 0 THEN 0
  ELSE 1 + AncestorCount(fs, par, fuel - 1)

Descendants(fs, id) == { d \in DOMAIN fs : IsDescendant(fs, d, id) }

IsPrefix(pre, s) == Len(pre) <= Len(s) /\ SubSeq(s, 1, Len(pre)) = pre

Range(q) == { q[k] : k \in DOMAIN q }

TreeChanged == last.op \in {"create", "update"} /\ last.status \in {200, 201}

UpdateNames == Names \cup {NoName}
UpdateParents == {Undefined, NoId} \cup DOMAIN folders

\* C1: after every successful folder create, rename or move, every folder's
\* path is the '/'-joined chain of its ancestors' names down to its own name;
\* a root folder's path is exactly its name.
C1_PathIsAncestorChain ==
  TreeChanged =>
    \A i \in DOMAIN folders : folders[i].path = ChainPath(folders, i, Cardinality(DOMAIN folders))

\* C2: after every successful folder create, rename or move, every folder's
\* depth is the number of its ancestors (0 for a root folder).
C2_DepthIsAncestorCount ==
  TreeChanged =>
    \A i \in DOMAIN folders :
      folders[i].depth = AncestorCount(folders, i, Cardinality(DOMAIN folders))

ParentRelationAcyclic == \A i \in DOMAIN folders : ~OnCycle(folders, i)

\* the state InitAfterDelete starts from, as Spec reaches it
AfterDeleteReached ==
  folders = Replay5.folders /\ nextId = 3 /\ dirs = Replay3.dirs

\* C3: an update naming as new parent the folder itself or one of its
\* descendants is refused (409 Conflict; the handler's own refusal is a 400)
\* and changes no folder record, and the parentFolder relation stays acyclic.
C3_MoveIntoSubtreeRefused ==
  /\ [][\A i \in DOMAIN folders, n \in UpdateNames, p \in DOMAIN folders :
          (Update(i, n, p) /\ (p = i \/ IsDescendant(folders, p, i)))
            => (last'.status \in {400, 409} /\ folders' = folders)]_vars
  /\ []ParentRelationAcyclic

\* C3 with the status the claim names
C3_MoveIntoSubtreeIsConflict ==
  [][\A i \in DOMAIN folders, n \in UpdateNames, p \in DOMAIN folders :
       (Update(i, n, p) /\ (p = i \/ IsDescendant(folders, p, i)))
         => (last'.status = 409 /\ folders' = folders)]_vars

\* C4: when a rename or move of a folder completes, each of its transitive
\* descendants has been rewritten exactly once, and each descendant's path
\* starts with the folder's new path.
C4_DescendantsRewrittenOnce ==
  (last.op = "update" /\ last.status = 200)
    => LET D == Descendants(folders, last.id) IN
       /\ Len(last.visits) = Cardinality(D)
       /\ Range(last.visits) = D
       /\ \A d \in D :
            IsPrefix(folders[last.id].path \o <<Slash>>, folders[d].path)

\* a completed rename or move of a folder that has a child and a grandchild
C4_Witness ==
  /\ last.op = "update" /\ last.status = 200
  /\ \E c, g \in DOMAIN folders :
       /\ folders[c].parentFolder = last.id
       /\ folders[g].parentFolder = c
  /\ folders[last.id].path # ChainPath(folders, last.id, Cardinality(DOMAIN folders))

\* C5: deleting a non-system folder removes its physical directory, sets
\* parentFolder to null on each direct child and deletes no child record.
C5_DeleteRemovesDirAndOrphans ==
  [][\A i \in DOMAIN folders :
       (Delete(i) /\ last'.status = 200)
         => /\ Phys(folders[i].path) \notin dirs'
            /\ \A c \in DOMAIN folders :
                 folders[c].parentFolder = i
                   => (c \in DOMAIN folders' /\ folders'[c].parentFolder = NoId)]_vars

\* C6: a create whose computed path is already the path of an existing folder
\* answers 409 Conflict and persists nothing, at the root and under a parent.
C6_DuplicatePathIsConflict ==
  [][\A n \in CreateNames, p \in {NoId} \cup DOMAIN folders :
       (Create(n, p)
          /\ \E j \in DOMAIN folders :
               folders[j].path = NewFolderDoc(folders, n, p).path)
         => (last'.status = 409 /\ folders' = folders)]_vars

\* ========================================== properties of the file versions
\* the records sharing one (folder, originalFilename)
Lineage(fl, folder, name) ==
  { i \in DOMAIN fl : /\ fl[i].folder = folder
                      /\ fl[i].originalFilename = name
                      /\ ~fl[i].isDeleted }

MaxVersion(fl, S) ==
  IF S = {} THEN 0
  ELSE LET m == CHOOSE x \in S : \A y \in S : fl[y].version <= fl[x].version
       IN fl[m].version

\* base(N-1).ext, and the name itself for version 1
NumberedName(name, version) ==
  IF version = 1 THEN name
  ELSE LET dots == { i \in 1..Len(name) : name[i] = Dot }
           cut == IF dots = {} \/ dots = {1} THEN Len(name) + 1
                  ELSE CHOOSE i \in dots : \A j \in dots : j <= i
       IN SubSeq(name, 1, cut - 1) \o <<"(">> \o Digits(version - 1)
            \o <<")">> \o SubSeq(name, cut, Len(name))

\* the step served an upload request of one file
OneFileUpload == last'.op = "upload" /\ Len(last'.items) = 1

\* records of `folder` that hold the bytes before the step
SameContent(folder, bytes) ==
  { i \in DOMAIN files : /\ files[i].folder = folder
                         /\ files[i].fileHash = Sha256(bytes)
                         /\ ~files[i].isDeleted }

\* C7: an upload of content whose SHA-256 equals that of a non-deleted file
\* of the same folder creates no File record, and its response carries that
\* existing record marked as a duplicate.
C7_DuplicateContentReturnsExisting ==
  [][ (OneFileUpload
         /\ SameContent(last'.folder, last'.items[1].bytes) # {})
      => /\ files' = files
         /\ Len(last'.saved) = 1
         /\ last'.saved[1].isDuplicate
         /\ last'.saved[1].id
              \in SameContent(last'.folder, last'.items[1].bytes) ]_vars

\* C8: an upload whose content matches no non-deleted file of the target
\* folder is persisted as a new record of that folder with the next version
\* number, whatever other folders hold.
C8_DuplicateDetectionIsFolderScoped ==
  [][ (OneFileUpload
         /\ SameContent(last'.folder, last'.items[1].bytes) = {})
      => \E n \in DOMAIN files' \ DOMAIN files :
           /\ files'[n].folder = last'.folder
           /\ files'[n].fileHash = Sha256(last'.items[1].bytes)
           /\ files'[n].version =
                1 + MaxVersion(files, Lineage(files, last'.folder,
                                              last'.items[1].name)) ]_vars

\* the record an upload step created has the next version of its lineage
\* and the numbered name of that version
NewRecordNumbered(n) ==
  LET name == last'.items[1].name
      version == 1 + MaxVersion(files, Lineage(files, last'.folder, name))
  IN /\ files'[n].originalFilename = name
     /\ files'[n].version = version
     /\ files'[n].filename = NumberedName(name, version)

\* C9 as stated: every record an upload creates has version 1 + the maximum
\* version of the non-deleted records of its (folder, originalFilename), or
\* 1, and is stored as the original name (version 1) or base(N-1).ext.
C9_VersionAndName ==
  [][ OneFileUpload
      => \A n \in DOMAIN files' \ DOMAIN files : NewRecordNumbered(n) ]_vars

\* C9, amended: the same for uploads that do not ask for the "date" version
\* format.
C9_NumberFormatVersionAndName ==
  [][ (OneFileUpload /\ last'.format # "date")
      => \A n \in DOMAIN files' \ DOMAIN files : NewRecordNumbered(n) ]_vars

\* three successive uploads of r.p: r.p, r(1).p, r(2).p with versions 1, 2, 3
C9_Witness ==
  /\ last.op = "upload" /\ last.status = 201 /\ last.format = "number"
  /\ DOMAIN files = {1, 2, 3}
  /\ \A i \in {1, 2, 3} :
       /\ files[i].folder = 1
       /\ files[i].originalFilename = <<"r", ".", "p">>
       /\ files[i].version = i
  /\ files[1].filename = <<"r", ".", "p">>
  /\ files[2].filename = <<"r", "(", "1", ")", ".", "p">>
  /\ files[3].filename = <<"r", "(", "2", ")", ".", "p">>
  /\ Cardinality({ files[i].fileHash : i \in {1, 2, 3} }) = 3

\* C10: every non-empty lineage holds exactly one record with
\* isCurrentVersion = true.
C10_OneCurrentVersionPerLineage ==
  \A i \in DOMAIN files :
    Cardinality({ j \in Lineage(files, files[i].folder,
                                files[i].originalFilename) :
                    files[j].isCurrentVersion }) = 1

\* the versioned name the upload of this step computed first
ComputedName ==
  GenerateVersionedName(
    last'.items[1].name,
    1 + MaxVersion(files, Lineage(files, last'.folder, last'.items[1].name)),
    last'.format)

\* C11: when the computed versioned name is already the filename of a
\* non-deleted file of the folder (and the content is new to the store), the
\* upload persists a new record under a name no file of the folder used.
C11_CollisionFindsFreeName ==
  [][ (OneFileUpload
         /\ NameTaken(files, last'.folder, ComputedName)
         /\ \A i \in DOMAIN files :
              files[i].fileHash # Sha256(last'.items[1].bytes))
      => \E n \in DOMAIN files' \ DOMAIN files :
           /\ files'[n].folder = last'.folder
           /\ ~NameTaken(files, last'.folder, files'[n].filename) ]_vars

\* the step served a restore request for the version-1 original of a lineage
\* whose current record is another one, of the lineage's highest version
RestoreOfOriginal(cur) ==
  /\ last'.op = "restore"
  /\ last'.id \in DOMAIN files
  /\ files[last'.id].version = 1
  /\ files[last'.id].originalFile = NoId
  /\ cur # last'.id
  /\ cur \in Lineage(files, files[last'.id].folder,
                     files[last'.id].originalFilename)
  /\ files[cur].isCurrentVersion
  /\ files[cur].version
       = MaxVersion(files, Lineage(files, files[last'.id].folder,
                                   files[last'.id].originalFilename))

\* C12: restoring version 1 of a lineage whose current version is N succeeds
\* and creates one record of version N + 1 that is current and holds version
\* 1's bytes; the record that was current is demoted, and findVersions
\* returns the lineage, the new record included, by ascending version.
C12_RestoreCreatesNextVersion ==
  [][ \A cur \in DOMAIN files :
        RestoreOfOriginal(cur)
        => /\ last'.status = 200
           /\ \E n \in DOMAIN files' \ DOMAIN files :
                /\ DOMAIN files' = DOMAIN files \cup {n}
                /\ files'[n].version = files[cur].version + 1
                /\ files'[n].isCurrentVersion
                /\ files'[n].fileHash = files[last'.id].fileHash
                /\ Phys(files'[n].path) \in DOMAIN disk'
                /\ Sha256(disk'[Phys(files'[n].path)])
                     = files[last'.id].fileHash
                /\ ~files'[cur].isCurrentVersion
                /\ Range(FindVersions(files', last'.id))
                     = Lineage(files, files[last'.id].folder,
                               files[last'.id].originalFilename) \cup {n}
                /\ \A k \in 1..(Len(FindVersions(files', last'.id)) - 1) :
                     files'[FindVersions(files', last'.id)[k]].version
                       < files'[FindVersions(files', last'.id)[k + 1]].version
    ]_vars

\* the record a restore request names belongs to a lineage that holds a
\* record with isCurrentVersion = true
RestoreInLineageWithCurrent ==
  /\ last'.op = "restore"
  /\ last'.id \in DOMAIN files
  /\ \E j \in Lineage(files, files[last'.id].folder,
                      files[last'.id].originalFilename) :
       files[j].isCurrentVersion

\* C13: restore, given any record of a lineage that has a current version
\* (the sole record of a one-version lineage included), finds that current
\* version: it does not answer "Current version not found".
C13_RestoreLocatesCurrentVersion ==
  [][ RestoreInLineageWithCurrent => last'.status # 400 ]_vars

\* C14: findVersions, given any record of a lineage, returns exactly the
\* records of that lineage by strictly ascending version, and the same list
\* for every member.
C14_FindVersionsReturnsLineage ==
  \A i \in DOMAIN files :
    LET L == Lineage(files, files[i].folder, files[i].originalFilename)
        v == FindVersions(files, i)
    IN /\ Range(v) = L
       /\ Len(v) = Cardinality(L)
       /\ \A k \in 1..(Len(v) - 1) :
            files[v[k]].version < files[v[k + 1]].version
       /\ \A j \in L : FindVersions(files, j) = v

\* C15: deleting a file removes its record and the object at its path, and
\* succeeds, with the record removed, when the object is already absent; the
\* other records stay as they are.
C15_DeleteRemovesRecordAndObject ==
  [][ (last'.op = "deleteFile" /\ last'.id \in DOMAIN files)
      => /\ last'.status = 200
         /\ DOMAIN files' = DOMAIN files \ {last'.id}
         /\ \A j \in DOMAIN files' : files'[j] = files[j]
         /\ Phys(files[last'.id].path) \notin DOMAIN disk' ]_vars

\* a delete of a record whose bytes were no longer at its path
C15_Witness ==
  /\ last.op = "deleteFile"
  /\ last.status = 200
  /\ ~last.unlinked
  /\ last.id \notin DOMAIN files


\* ============================================ properties of access and review
\* the annotations a record of each status carries and those it does not
AnnotationsAgree(f) ==
  /\ f.approvalStatus = "approved" =>
        /\ f.approvedBy # NoUser /\ f.approvedAt # NoTime
        /\ f.rejectedBy = NoUser /\ f.rejectedAt = NoTime
        /\ f.disapprovalReason = Absent
  /\ f.approvalStatus = "disapproved" =>
        /\ f.rejectedBy # NoUser /\ f.rejectedAt # NoTime
        /\ f.disapprovalReason \notin { Absent, <<>> }
        /\ f.approvedBy = NoUser /\ f.approvedAt = NoTime
  /\ f.approvalStatus = "pending" =>
        /\ f.approvedBy = NoUser /\ f.approvedAt = NoTime
        /\ f.rejectedBy = NoUser /\ f.rejectedAt = NoTime
        /\ f.disapprovalReason = Absent

\* C16: in every reachable state the approval annotations of every file
\* record agree with its approvalStatus: an approved record names its approver
\* and carries no rejection, a disapproved record names its rejector and a
\* non-empty reason and carries no approval, a pending record carries neither.
C16_AnnotationsAgreeWithStatus ==
  \A i \in DOMAIN files : AnnotationsAgree(files[i])


\* a reason that is missing, empty or made of spaces only
BlankReason(reason) ==
  \/ reason = Absent
  \/ \A k \in DOMAIN reason : reason[k] = Space

\* a verdict the review route must refuse
InvalidVerdict(decision, reason) ==
  \/ decision \notin { "approved", "disapproved" }
  \/ decision = "disapproved" /\ BlankReason(reason)

\* C17: a set-approval request whose status is neither approved nor
\* disapproved, or that disapproves with a missing, empty or whitespace-only
\* reason, is answered 400 when a reviewer sends it and leaves every file
\* record as it was whoever sends it; and no step takes a record that left
\* pending back to pending.
C17_InvalidVerdictChangesNothing ==
  [][ /\ ( last'.op = "approval"
           /\ InvalidVerdict(last'.decision, last'.reason) ) =>
          /\ files' = files
          /\ Role(last'.user) \in { "admin", "sub-admin" } =>
                last'.status = 400
      /\ \A i \in DOMAIN files \cap DOMAIN files' :
           files[i].approvalStatus # "pending" =>
             files'[i].approvalStatus # "pending" ]_vars

\* a reviewer's disapproval with a reason of spaces, or a verdict of
\* pending, was refused for a record that exists and is not pending
C17_Witness ==
  /\ last.op = "approval"
  /\ last.status = 400
  /\ Role(last.user) \in { "admin", "sub-admin" }
  /\ \/ last.decision = "disapproved" /\ last.reason = <<Space>>
     \/ last.decision = "pending"
  /\ last.id \in DOMAIN files
  /\ files[last.id].approvalStatus # "pending"


ReadOps == { "contents", "details", "download", "info", "versions" }

\* may a principal of role user be shown the record?
VisibleTo(f, user) ==
  \/ f.approvalStatus = "approved"
  \/ f.uploadedBy = user
  \/ f.owner = user

\* C18: a read operation (folder contents, file details, file info,
\* download or preview, list of versions) answered to a principal of role
\* user shows no pending or disapproved record that the principal neither
\* uploaded nor owns; and the contents of a folder the principal may read
\* list every approved record of the folder.
C18_UnapprovedHiddenFromOthers ==
  ( last.op \in ReadOps /\ Role(last.user) = "user" ) =>
    /\ \A i \in last.shown : VisibleTo(files[i], last.user)
    /\ ( last.op = "contents" /\ last.status = 200 ) =>
          \A i \in DOMAIN files :
            ( files[i].folder = last.id
              /\ files[i].approvalStatus = "approved" ) => i \in last.shown


\* the principal made the folder, has an entry in its access set, or the
\* folder is a system folder
AccessRule(folder, user) ==
  \/ folder.createdBy = user
  \/ \E k \in DOMAIN folder.access : folder.access[k].user = user
  \/ folder.isSystemFolder

\* C19: the read of a folder that exists is granted to a principal exactly
\* when the principal made the folder, has an entry in its access set, or
\* the folder is a system folder; and the list operation returns exactly
\* the folders of that rule to a caller who is not the administrator.
C19_AccessRuleDecidesReads ==
  /\ ( last.op = "contents" /\ last.id \in DOMAIN folders ) =>
        ( last.status = 200 <=> AccessRule(folders[last.id], last.user) )
  /\ ( last.op = "list" /\ Role(last.user) # "admin" ) =>
        last.shown = { f \in DOMAIN folders :
                         AccessRule(folders[f], last.user) }


\* the entries of a user in an access set
EntriesOf(acc, user) == { k \in DOMAIN acc : acc[k].user = user }

\* the access set but for the entries of a user
Others(acc, user) == SelectSeq(acc, LAMBDA e : e.user # user)

\* every access set holds at most one entry for a user
OneEntryPerUser(fs) ==
  \A f \in DOMAIN fs, u \in Users :
    Cardinality(EntriesOf(fs[f].access, u)) <= 1

\* C20: after every step each access set holds at most one entry for a
\* user; a grant that is accepted leaves the user exactly one entry, with
\* the permission of the request, in the place of the old entry when there
\* was one, and leaves the other entries alone; a revoke that is accepted
\* leaves the user no entry and the other entries alone; a revoke of a user
\* who has no entry changes nothing.
C20_GrantAndRevokeAreIdempotent ==
  [][ /\ OneEntryPerUser(folders')
      /\ ( last'.op \in { "grant", "revoke" } /\ last'.status = 200 ) =>
        LET f == last'.id
            u == last'.user
            old == folders[f].access
            new == folders'[f].access
        IN /\ \A g \in DOMAIN folders \ {f} : folders'[g] = folders[g]
           /\ Others(new, u) = Others(old, u)
           /\ last'.op = "grant" =>
                /\ Cardinality(EntriesOf(new, u)) = 1
                /\ \A k \in EntriesOf(new, u) :
                     new[k].permission = last'.permission
                /\ EntriesOf(old, u) # {} =>
                     /\ Len(new) = Len(old)
                     /\ EntriesOf(new, u) = EntriesOf(old, u)
           /\ last'.op = "revoke" =>
                /\ EntriesOf(new, u) = {}
                /\ EntriesOf(old, u) = {} => folders' = folders ]_vars

\* a user who had an entry was granted another permission
C20_Witness ==
  /\ last.op = "grant"
  /\ last.status = 200
  /\ last.permission = "read"
  /\ Len(folders[1].access) = 3
  /\ folders[1].access[1].user = last.user
  /\ folders[1].access[1].permission = "read"

\* ================================================ properties of the uploads
\* the files of a request that the loop of the upload route takes up
RECURSIVE ItemsReached(_, _, _, _, _)
ItemsReached(st, folderId, folderPath, items, format) ==
  IF items = <<>> \/ st.threw THEN 0
  ELSE 1 + ItemsReached(UploadOne(st, folderId, folderPath, Head(items),
                                  format),
                        folderId, folderPath, Tail(items), format)

\* an upload request that got as far as the loop over its files
LoopedUpload == last'.op = "upload" /\ last'.status \in { 201, 409, 500 }

\* C21: an upload request that reaches the loop over its files takes up every
\* file of the request, whatever the outcome of the files before it (name
\* collision, object present at the target path, duplicate content, unique
\* index violation).
C21_ConflictDoesNotAbortBatch ==
  [][ LoopedUpload =>
        ItemsReached(UploadState(files, nextFileId, disk, dirs, Admin),
                     last'.folder, folders[last'.folder].path, last'.items,
                     last'.format) = Len(last'.items) ]_vars

\* C22: an upload request that reaches the loop over its files answers with
\* a failure exactly when it persisted no new File record; a request whose
\* files are all duplicates of stored content persists nothing and fails.
C22_FailureIffNothingPersisted ==
  [][ LoopedUpload =>
        ( last'.status # 201 <=> DOMAIN files' \ DOMAIN files = {} ) ]_vars

\* C30: a one-file upload that saves a record leaves it with previousVersions
\* equal to the ids of the records its lineage had, with originalFile unset
\* when the lineage had none and equal to the lineage's version-1 record
\* otherwise; it sets isCurrentVersion to false on those records and changes
\* nothing else of them, and leaves every other record as it was.
C30_UploadFrameEffect ==
  [][ ( OneFileUpload /\ last'.status = 201
        /\ DOMAIN files' # DOMAIN files ) =>
        LET n == nextFileId
            prior == Lineage(files, last'.folder, last'.items[1].name)
        IN /\ Range(files'[n].previousVersions) = prior
           /\ Len(files'[n].previousVersions) = Cardinality(prior)
           /\ IF prior = {} THEN files'[n].originalFile = NoId
              ELSE /\ files'[n].originalFile \in prior
                   /\ files[files'[n].originalFile].version = 1
           /\ \A i \in prior :
                files'[i] = [files[i] EXCEPT !.isCurrentVersion = FALSE]
           /\ \A i \in DOMAIN files \ prior : files'[i] = files[i] ]_vars

\* ======================================== properties of the storage adapter
\* the storage root or a location below it
InsideRoot(p) == Below(STORAGE_ROOT, p)

\* C23: an adapter call one of whose paths resolves to a location outside
\* the storage root ends with a path-violation error and leaves the
\* filesystem as it was, and so does deleteDirectory of the root itself.
C23_AdapterStaysInsideRoot ==
  [][ ( /\ last'.op = "adapter"
        /\ \/ \E k \in DOMAIN last'.targets : ~InsideRoot(last'.targets[k])
           \/ /\ last'.fn = "deleteDirectory"
              /\ last'.targets[1] = STORAGE_ROOT ) =>
        /\ last'.status = "violation"
        /\ dirs' = dirs
        /\ disk' = disk ]_vars

\* ================================================ properties of the download
\* C24: once the consumer of a transfer has disconnected, the request was
\* aborted or the response failed, the read stream of the transfer is
\* destroyed or has ended, and it reads no more bytes; for full transfers
\* and for byte-range transfers.
C24_DisconnectDestroysStream ==
  [][ \A t \in DOMAIN inflight' :
        inflight'[t].consumer # "connected" =>
          /\ inflight'[t].stream \in { "destroyed", "ended" }
          /\ ( t \in DOMAIN inflight /\ inflight[t].consumer # "connected" ) =>
               inflight'[t].pos = inflight[t].pos ]_vars

\* the bytes a transfer is to deliver
Delivers(t) == t.upto - t.from

\* C25: a download is answered as a partial transfer exactly when the
\* request carries a range and the file is a video or larger than 10 MiB; a
\* partial transfer has status 206, declares end - start + 1 bytes, a number
\* that is not negative, for a range that ends inside the file, and delivers
\* as many bytes as it declares; every other download delivers the whole
\* object.
C25_RangeServedAsPartial ==
  [][ ( last'.op = "serve" /\ last'.status \notin { 403, 404 } ) =>
        LET f == files[last'.id]
            size == SizeOf(disk[Phys(f.path)])
            wanted == /\ last'.range # Absent
                      /\ ( IsVideo(f.mimetype) \/ size > LargeFile )
        IN /\ last'.transfer # <<>>
           /\ LET t == last'.transfer[1] IN
              IF wanted
              THEN /\ t.status = 206
                   /\ t.declared >= 1
                   /\ t.from + t.declared <= size
                   /\ Delivers(t) = t.declared
              ELSE /\ t.status = 200
                   /\ t.declared = size
                   /\ t.from = 0
                   /\ Delivers(t) = size ]_vars

\* C26: every rename or move of a folder moves the physical directory before
\* the record's new path is committed: once an update has changed the
\* location a folder's path names, the directory is at the new location and
\* no longer at the old one.
C26_DirectoryMovedBeforePathCommitted ==
  [][ ( /\ last'.op = "update"
        /\ last'.id \in DOMAIN folders \cap DOMAIN folders'
        /\ Phys(folders'[last'.id].path) # Phys(folders[last'.id].path) ) =>
        /\ Phys(folders'[last'.id].path) \in dirs'
        /\ Phys(folders[last'.id].path) \in dirs =>
             Phys(folders[last'.id].path) \notin dirs' ]_vars

\* C27: in every reachable state, those left by a request that failed
\* between its filesystem step and its metadata step included, the path of
\* every persisted File record names a physical object that exists.
C27_RecordsPointAtExistingObjects ==
  \A i \in DOMAIN files : Phys(files[i].path) \in DOMAIN disk

\* --------------------------------- two uploads in flight (POST .../files)
\* The handler is an async function: between two awaits another request's
\* steps may run.  A request in flight carries its position (pc) and the
\* constants of the loop body: existingVersions, nextVersion, versionedName.
Racers == { 1, 2 }

\* each request carries one file of the same name; request s carries bytes s
RaceItem(s) == [name |-> PaperName, bytes |-> s]

UploadInFlight(s, format) ==
  [kind |-> "upload", pc |-> "find", user |-> Admin, folder |-> 1,
   item |-> RaceItem(s), format |-> format, existing |-> <<>>,
   nextVersion |-> 0, versionedName |-> <<>>, status |-> 0,
   saved |-> <<>>, staged |-> TRUE]

At(s, pc) == s \in DOMAIN inflight /\ inflight[s].pc = pc

SetInFlight(s, t) ==
  [q \in DOMAIN inflight \cup {s} |-> IF q = s THEN t ELSE inflight[q]]

\* the response: on a throw the catch block unlinks the staged file if it
\* is still in the temp directory
Respond(t, status, saved) ==
  [t EXCEPT !.pc = "done", !.status = status, !.saved = saved,
            !.staged = IF status = 500 THEN FALSE ELSE @]

\* multer staged the file; Folder.findById and the access check passed
BeginUpload(s, format) ==
  /\ s \notin DOMAIN inflight
  /\ inflight' = SetInFlight(s, UploadInFlight(s, format))
  /\ UNCHANGED <<users, odm, folders, nextId, dirs, files, nextFileId, disk, last>>

\* mkdir of the folder's directory, File.find(...).sort({version: -1}),
\* nextVersion and File.generateVersionedName
ReadVersions(s) ==
  /\ At(s, "find")
  /\ LET t == inflight[s]
         existing == ByVersionDesc(files,
                                   VersionsOf(files, t.folder, t.item.name))
         nextVersion == IF existing = <<>> THEN 1
                        ELSE files[existing[1]].version + 1
     IN /\ inflight' = SetInFlight(s,
             [t EXCEPT !.pc = "name", !.existing = existing,
                       !.nextVersion = nextVersion,
                       !.versionedName =
                         GenerateVersionedName(t.item.name, nextVersion,
                                               t.format)])
        /\ dirs' = IF Phys(folders[t.folder].path) \in dirs THEN dirs
                   ELSE CreateDirectory(dirs, folders[t.folder].path)
  /\ UNCHANGED <<users, odm, folders, nextId, files, nextFileId, disk, last>>

\* what an upload in flight leaves in `last` when it answers
RaceReq(t, status, saved) ==
  FileReq("upload", status, NoId, t.folder, <<t.item>>, t.format, saved,
          IF t.staged /\ status # 500 THEN 1 ELSE 0)

\* File.findOne({folder, filename: versionedName}); a hit runs into the
\* assignment to the const versionedName.  Then fs.existsSync(finalPath):
\* a hit skips the file, and the request of one file answers 409.
CheckName(s) ==
  /\ At(s, "name")
  /\ LET t == inflight[s]
         finalPath == Phys(PathJoin(folders[t.folder].path, t.versionedName))
     IN IF NameTaken(files, t.folder, t.versionedName)
        THEN /\ inflight' = SetInFlight(s, Respond(t, 500, <<>>))
             /\ last' = RaceReq(t, 500, <<>>)
        ELSE IF finalPath \in DOMAIN disk
        THEN /\ inflight' = SetInFlight(s, Respond(t, 409, <<>>))
             /\ last' = RaceReq(t, 409, <<>>)
        ELSE /\ inflight' = SetInFlight(s, [t EXCEPT !.pc = "hash"])
             /\ last' = last
  /\ UNCHANGED <<users, odm, folders, nextId, dirs, files, nextFileId, disk>>

\* the hash of the staged file is complete; File.findOne({folder, fileHash})
CheckDuplicate(s) ==
  /\ At(s, "hash")
  /\ LET t == inflight[s]
         duplicateFile ==
           FindOne({ i \in DOMAIN files :
                       /\ files[i].folder = t.folder
                       /\ files[i].fileHash = Sha256(t.item.bytes)
                       /\ ~files[i].isDeleted })
     IN IF duplicateFile # NoId
        THEN /\ inflight' = SetInFlight(s, Respond(t, 201,
                              <<[id |-> duplicateFile, isDuplicate |-> TRUE]>>))
             /\ last' = RaceReq(t, 201,
                              <<[id |-> duplicateFile, isDuplicate |-> TRUE]>>)
        ELSE /\ inflight' = SetInFlight(s, [t EXCEPT !.pc = "move"])
             /\ last' = last
  /\ UNCHANGED <<users, odm, folders, nextId, dirs, files, nextFileId, disk>>

\* fsp.rename(file.path, finalPath): replaces what is at finalPath
MoveStaged(s) ==
  /\ At(s, "move")
  /\ LET t == inflight[s]
         finalPath == Phys(PathJoin(folders[t.folder].path, t.versionedName))
     IN /\ disk' = DiskPut(disk, finalPath, t.item.bytes)
        /\ inflight' = SetInFlight(s, [t EXCEPT !.pc = "save",
                                                !.staged = FALSE])
  /\ UNCHANGED <<users, odm, folders, nextId, dirs, files, nextFileId, last>>

\* newFile.save() with the versions read at "find"; updateMany and the
\* second save follow in the same step: they write isCurrentVersion and
\* previousVersions only, which no step of an upload reads
SaveRecord(s) ==
  /\ At(s, "save")
  /\ LET t == inflight[s]
         st == SaveNewVersion(UploadState(files, nextFileId, disk, dirs, t.user),
                              t.folder, folders[t.folder].path, t.item,
                              t.versionedName, t.existing)
         status == IF st.threw THEN 500 ELSE 201
     IN /\ files' = st.files
        /\ nextFileId' = st.nid
        /\ inflight' = SetInFlight(s, Respond(t, status, st.saved))
        /\ last' = RaceReq(t, status, st.saved)
  /\ UNCHANGED <<users, odm, folders, nextId, dirs, disk>>

\* the folder before the two requests: empty, or holding one version of
\* the file with contents of its own
Seeded == UploadFiles(Root2.folders, <<>>, 1, <<>>, Root2.dirs, Admin, 1, <<[name |-> PaperName, bytes |-> 3]>>, "number")

InitRace ==
  /\ folders = Root2.folders
  /\ nextId = 3
  /\ odm = 6
  /\ inflight = <<>>
  /\ users = Principals
  /\ \/ /\ files = <<>>
        /\ nextFileId = 1
        /\ disk = <<>>
        /\ dirs = Root2.dirs
        /\ last = [op |-> "create", status |-> Root2.status, id |-> NoId,
                   visits |-> <<>>]
     \/ /\ files = Seeded.files
        /\ nextFileId = Seeded.nid
        /\ disk = Seeded.disk
        /\ dirs = Seeded.dirs
        /\ last = FileReq("upload", Seeded.status, NoId, 1,
                          <<[name |-> PaperName, bytes |-> 3]>>, "number",
                          Seeded.saved, Seeded.staged)

NextRace ==
  \/ \E s \in Racers, fmt \in VersionFormats : BeginUpload(s, fmt)
  \/ \E s \in Racers : ReadVersions(s)
  \/ \E s \in Racers : CheckName(s)
  \/ \E s \in Racers : CheckDuplicate(s)
  \/ \E s \in Racers : MoveStaged(s)
  \/ \E s \in Racers : SaveRecord(s)

SpecRace == InitRace /\ [][NextRace]_vars

\* the two requests read the same maximum version and both have answered
RacedOnOneVersion ==
  /\ DOMAIN inflight = Racers
  /\ \A s \in Racers : inflight[s].kind = "upload" /\ inflight[s].pc = "done"
  /\ inflight[1].nextVersion = inflight[2].nextVersion

\* C28: after two concurrent uploads of different content for one (folder,
\* originalFilename) that read the same maximum version, no two records of
\* the lineage carry the same version number or the same filename, and
\* every upload that answered with success finds its own bytes at the path
\* of its record.
C28_ConcurrentUploadsKeepVersionsApart ==
  RacedOnOneVersion =>
    /\ \A i, j \in VersionsOf(files, 1, PaperName) :
         i # j => /\ files[i].version # files[j].version
                  /\ files[i].filename # files[j].filename
    /\ \A s \in Racers :
         ( inflight[s].status = 201 /\ ~inflight[s].saved[1].isDuplicate ) =>
           LET p == Phys(files[inflight[s].saved[1].id].path) IN
           p \in DOMAIN disk /\ disk[p] = inflight[s].item.bytes

\* ----------------------------- two folder moves in flight (PUT /folder/:id)
\* Each await of the handler and of updateChildPaths is a step of its own.
\* The recursion of updateChildPaths is a stack of frames: the children
\* Folder.find returned that are still to be rewritten, and the new path
\* of their parent.
MoveInFlight(id, parent, folder) ==
  [kind |-> "move", pc |-> "parent", id |-> id, parent |-> parent,
   name |-> folder.name, path |-> folder.path, updates |-> <<>>,
   stack |-> <<>>, visits |-> <<>>, status |-> 0, long |-> FALSE]

Frame(parentId, newParentPath) ==
  [parentId |-> parentId, path |-> newParentPath, read |-> FALSE,
   children |-> <<>>]

\* the frames whose loop has run out return to their callers
RECURSIVE Unwind(_)
Unwind(stack) ==
  IF stack = <<>> THEN <<>>
  ELSE IF stack[1].read /\ stack[1].children = <<>> THEN Unwind(Tail(stack))
  ELSE stack

Answer(t, status, long) ==
  [t EXCEPT !.pc = "done", !.status = status, !.long = long, !.stack = <<>>]

MoveReq(t, status) ==
  [op |-> "update", status |-> status, id |-> t.id, visits |-> t.visits]

\* Folder.findById(req.params.id); the authorization check passes
BeginMove(s, id, parent) ==
  /\ s \notin DOMAIN inflight
  /\ inflight' = SetInFlight(s, MoveInFlight(id, parent, folders[id]))
  /\ UNCHANGED <<users, odm, folders, nextId, dirs, files, nextFileId, disk, last>>

\* Folder.findById(req.body.parentFolder), the check against moving a
\* folder into itself or its children, and the updates object
ReadParent(s) ==
  /\ At(s, "parent")
  /\ LET t == inflight[s]
         newParent == folders[t.parent]
     IN IF MoveRejected(t.path, newParent.path)
        THEN /\ inflight' = SetInFlight(s, Answer(t, 400, FALSE))
             /\ last' = MoveReq(t, 400)
        ELSE /\ inflight' = SetInFlight(s,
                  [t EXCEPT !.pc = "write",
                            !.updates = <<[parentFolder |-> t.parent,
                                           path |-> PathJoin(newParent.path,
                                                             t.name)]>>])
             /\ last' = last
  /\ UNCHANGED <<users, odm, folders, nextId, dirs, files, nextFileId, disk>>

\* Folder.findByIdAndUpdate(req.params.id, updates)
WriteFolder(s) ==
  /\ At(s, "write")
  /\ LET t == inflight[s]
         u == t.updates[1]
     IN IF ~PathFree(folders, t.id, u.path) \/ TooLong(u.path)
        THEN /\ inflight' = SetInFlight(s, Answer(t, 500, FALSE))
             /\ last' = MoveReq(t, 500)
             /\ folders' = folders
        ELSE /\ folders' = [folders EXCEPT ![t.id].parentFolder = u.parentFolder,
                                           ![t.id].path = u.path]
             /\ inflight' = SetInFlight(s,
                  [t EXCEPT !.pc = "walk", !.stack = <<Frame(t.id, u.path)>>])
             /\ last' = last
  /\ UNCHANGED <<users, odm, nextId, dirs, files, nextFileId, disk>>

\* updateChildPaths: Folder.find({parentFolder: parentId}); with no child
\* the call returns, and the request answers once every call has returned
WalkFind(s) ==
  /\ At(s, "walk")
  /\ LET t == inflight[s]
         top == t.stack[1]
     IN /\ ~top.read
        /\ LET stack == Unwind(<<[top EXCEPT
                                   !.read = TRUE,
                                   !.children = ChildrenOf(folders, top.parentId)]>>
                               \o Tail(t.stack))
           IN IF stack = <<>>
              THEN /\ inflight' = SetInFlight(s, Answer(t, 200, FALSE))
                   /\ last' = MoveReq(t, 200)
              ELSE /\ inflight' = SetInFlight(s, [t EXCEPT !.stack = stack])
                   /\ last' = last
  /\ UNCHANGED <<users, odm, folders, nextId, dirs, files, nextFileId, disk>>

\* updateChildPaths: Folder.findByIdAndUpdate(child._id, {path: newPath}),
\* then the recursive call for the child; a rejected write throws
WalkChild(s) ==
  /\ At(s, "walk")
  /\ LET t == inflight[s]
         top == t.stack[1]
     IN /\ top.read
        /\ LET c == Head(top.children)
               newPath == PathJoin(top.path, folders[c].name)
               seen == [t EXCEPT !.visits = @ \o <<c>>]
           IN IF ~PathFree(folders, c, newPath) \/ TooLong(newPath)
              THEN /\ inflight' = SetInFlight(s,
                        Answer(seen, 500, TooLong(newPath)))
                   /\ last' = MoveReq(seen, 500)
                   /\ folders' = folders
              ELSE /\ folders' = [folders EXCEPT ![c].path = newPath]
                   /\ inflight' = SetInFlight(s,
                        [seen EXCEPT !.stack =
                           <<Frame(c, newPath),
                             [top EXCEPT !.children = Tail(@)]>>
                           \o Tail(t.stack)])
                   /\ last' = last
  /\ UNCHANGED <<users, odm, nextId, dirs, files, nextFileId, disk>>

InitMoves ==
  /\ folders = Root2.folders
  /\ nextId = 3
  /\ dirs = Root2.dirs
  /\ last = [op |-> "create", status |-> Root2.status, id |-> NoId,
             visits |-> <<>>]
  /\ files = <<>>
  /\ nextFileId = 1
  /\ disk = <<>>
  /\ odm = 6
  /\ inflight = <<>>
  /\ users = Principals

NextMoves ==
  \/ \E s \in Racers, i \in DOMAIN folders, p \in DOMAIN folders :
        BeginMove(s, i, p)
  \/ \E s \in Racers : ReadParent(s)
  \/ \E s \in Racers : WriteFolder(s)
  \/ \E s \in Racers : WalkFind(s)
  \/ \E s \in Racers : WalkChild(s)

SpecMoves == InitMoves /\ [][NextMoves]_vars

\* both moves have answered
BothMoved ==
  /\ DOMAIN inflight = Racers
  /\ \A s \in Racers : inflight[s].kind = "move" /\ inflight[s].pc = "done"

\* C29: after two concurrent folder moves have completed, no folder is its
\* own ancestor in the parentFolder relation, and neither move's rewriting
\* of descendant paths went round and round until the store refused the
\* path.
C29_ConcurrentMovesKeepTreeAcyclic ==
  BothMoved =>
    /\ \A i \in DOMAIN folders : ~OnCycle(folders, i)
    /\ \A s \in Racers : ~inflight[s].long

\* C31: a file rename creates no record, leaves every other File record and
\* every other physical object as they were, also when the new name is in
\* use by another file of the folder, and, where it succeeds, changes
\* filename, originalFilename and path of the one record and nothing else
\* of it, with the record's bytes at the new path.
C31_RenameFrameEffect ==
  [][ ( last'.op = "rename" /\ last'.id \in DOMAIN files ) =>
        LET id == last'.id
            old == Phys(files[id].path)
        IN /\ DOMAIN files' = DOMAIN files
           /\ \A j \in DOMAIN files \ {id} : files'[j] = files[j]
           /\ \A p \in DOMAIN disk \ {old} :
                p \in DOMAIN disk' /\ disk'[p] = disk[p]
           /\ last'.status = 200 =>
                /\ [files'[id] EXCEPT
                      !.filename = files[id].filename,
                      !.originalFilename = files[id].originalFilename,
                      !.path = files[id].path] = files[id]
                /\ files'[id].originalFilename = files'[id].filename
                /\ files'[id].path =
                     PathJoin(folders[files[id].folder].path,
                              files'[id].filename)
                /\ Phys(files'[id].path) \in DOMAIN disk'
                /\ old \in DOMAIN disk =>
                     disk'[Phys(files'[id].path)] = disk[old] ]_vars

\* ------------------------------------------------------- the front desk
\* The seeded collection (a plain folder and a system folder); folder
\* requests, uploads and verdicts, addressed to documents that exist and
\* to ones that do not, by the administrator and by u1, who has no access.
Missing == MaxFolders + 1
Callers == { Admin, U1 }

InitDesk ==
  /\ folders = SeededFolders
  /\ nextId = 3
  /\ dirs = Root2.dirs
  /\ last = [op |-> "create", status |-> Root2.status, id |-> NoId,
             visits |-> <<>>]
  /\ files = <<>>
  /\ nextFileId = 1
  /\ disk = <<>>
  /\ odm = 6
  /\ inflight = <<>>
  /\ users = Principals

NextDesk ==
  \/ \E n \in CreateNames, p \in { NoId, 1, Missing } : Create(n, p)
  \/ \E i \in DOMAIN folders \cup { Missing }, n \in { NoName, <<"b">> },
        p \in { Undefined, 2, Missing } :
          ~(n = NoName /\ p = Undefined) /\ Update(i, n, p)
  \/ \E i \in DOMAIN folders \cup { Missing } : Delete(i)
  \/ \E u \in Callers, f \in { 1, Missing }, b \in Batches(MaxBatch) :
        UploadBy(u, MaxReviewFiles, f, b, "number")
  \/ \E u \in Callers, i \in ReviewFileIds, s \in { "approved", "pending" } :
        SetApproval(u, i, s, Absent)

SpecDesk == InitDesk /\ [][NextDesk]_vars

\* the answers of a refused request: validation, access, not found
Refusals == { 400, 403, 404 }

C33_NoStagedFileLeftBehind ==
  last.op = "upload" => last.staged = 0

\* C34: the 45 second timer is set for every transfer in preview mode,
\* byte-range ones included, and for no other; when it fires, the transfer
\* had neither finished nor closed, and its read stream is destroyed.
C34_PreviewTimeoutArmedAndCancels ==
  [][ \A s \in DOMAIN inflight' :
        inflight'[s].kind = "download" =>
          /\ inflight'[s].timer = inflight'[s].preview
          /\ last'.op = "timeout" =>
               /\ s \in DOMAIN inflight
               /\ ~inflight[s].isRequestCompleted
               /\ inflight[s].stream = "open"
               /\ inflight'[s].stream = "destroyed" ]_vars

\* C35: a move of a folder under an existing folder that is neither the
\* moved folder nor one of its descendants is never refused as a move into
\* itself or its children, whatever the names of the folders.
C35_OnlySubtreeMovesRefused ==
  [][ \A i \in DOMAIN folders, n \in UpdateNames, p \in DOMAIN folders :
        ( Update(i, n, p) /\ p # i /\ ~IsDescendant(folders, p, i) )
          => last'.status # 400 ]_vars

\* the words of the write rule: the administrator's role, the folder's
\* creator, or an access entry of the principal's own with write or admin
WriteRule(folder, user) ==
  \/ Role(user) = "admin"
  \/ folder.createdBy = user
  \/ \E k \in DOMAIN folder.access :
       /\ folder.access[k].user = user
       /\ folder.access[k].permission \in { "write", "admin" }

\* an upload of one file by the principal is not refused for want of access
PassesGate(user, folderId) ==
  UploadFiles(folders, files, nextFileId, disk, dirs, user, folderId,
              <<[name |-> PaperName, bytes |-> 1]>>, "number").status # 403

\* C36: the upload gate admits a principal exactly when the write rule
\* holds for them, and the canUpload flag get-folder returns to a principal
\* is true exactly when an upload by them to that folder would pass the
\* gate.
C36_CanUploadAgreesWithGate ==
  [][ ( last'.op = "contents" /\ last'.status = 200 ) =>
        /\ PassesGate(last'.user, last'.id)
             <=> WriteRule(folders[last'.id], last'.user)
        /\ last'.canUpload <=> PassesGate(last'.user, last'.id) ]_vars

\* C37: after any sequence of folder creates, renames and moves, no two
\* folder records have the same parent and the same name, and no two
\* resolve to the same directory under the storage root.
C37_SiblingNamesAndDirectoriesDistinct ==
  \A i, j \in DOMAIN folders :
    i # j =>
      /\ ~( /\ folders[i].parentFolder = folders[j].parentFolder
            /\ folders[i].name = folders[j].name )
      /\ Phys(folders[i].path) # Phys(folders[j].path)

\* C38: in every state a request leaves, the bytes at the path of every
\* File record hash to the record's fileHash; and no upload, file rename or
\* restore replaces or removes the bytes of a record other than its own.
C38_BytesMatchRecordedHash ==
  [][ /\ \A i \in DOMAIN files' :
           /\ Phys(files'[i].path) \in DOMAIN disk'
           /\ Sha256(disk'[Phys(files'[i].path)]) = files'[i].fileHash
      /\ last'.op \in { "upload", "rename", "restore" } =>
           \A j \in DOMAIN files \ { last'.id } :
             Phys(files[j].path) \in DOMAIN disk =>
               /\ Phys(files[j].path) \in DOMAIN disk'
               /\ disk'[Phys(files[j].path)] = disk[Phys(files[j].path)] ]_vars

\* ================================================================= accounts
\* ------------------------------------- POST /auth/register, /users routes
RoleList == { "admin", "sub-admin", "user" }
NoRole == "none"         \* a body without the key role
Anonymous == NoId        \* a caller who sends no token

\* auth(roles): 401 without a token or for a token whose user is gone, 403
\* when the role the User document carries now is not among `roles`
Auth(us, caller, roles) ==
  IF caller = Anonymous \/ caller \notin DOMAIN us THEN 401
  ELSE IF roles # {} /\ us[caller].role \notin roles THEN 403
  ELSE 200

EmailTaken(us, email) == \E u \in DOMAIN us : us[u].email = email

\* what an account request leaves in `last`
AccountReq(op, status, caller, id, role) ==
  [op |-> op, status |-> status, id |-> id, visits |-> <<>>,
   caller |-> caller, role |-> role]

\* POST /register: no auth middleware; role is read from the body and
\* defaults to "user"; the schema's enum judges it at save()
RegisterUser(us, email, role) ==
  LET given == IF role = NoRole THEN "user" ELSE role IN
  IF EmailTaken(us, email) THEN [status |-> 400, users |-> us]
  ELSE IF given \notin RoleList THEN [status |-> 500, users |-> us]
  ELSE [status |-> 201, users |-> Append(us, UserDoc(email, given))]

Register(email, role) ==
  \E r \in {RegisterUser(users, email, role)} :
  /\ Len(r.users) <= MaxUsers
  /\ users' = r.users
  /\ last' = AccountReq("register", r.status, Anonymous, NoId, role)
  /\ UNCHANGED <<inflight, odm, folders, nextId, dirs, files, nextFileId, disk>>

\* POST /users, auth(['admin'])
CreateUserDoc(us, caller, email, role) ==
  IF Auth(us, caller, {"admin"}) # 200
  THEN [status |-> Auth(us, caller, {"admin"}), users |-> us]
  ELSE IF role = NoRole \/ role \notin RoleList
  THEN [status |-> 400, users |-> us]
  ELSE IF EmailTaken(us, email) THEN [status |-> 400, users |-> us]
  ELSE [status |-> 201, users |-> Append(us, UserDoc(email, role))]

CreateUser(caller, email, role) ==
  \E r \in {CreateUserDoc(users, caller, email, role)} :
  /\ Len(r.users) <= MaxUsers
  /\ users' = r.users
  /\ last' = AccountReq("createUser", r.status, caller, NoId, role)
  /\ UNCHANGED <<inflight, odm, folders, nextId, dirs, files, nextFileId, disk>>

\* PUT /users/:id/role, auth(['admin'])
UpdateRoleDoc(us, caller, id, role) ==
  IF Auth(us, caller, {"admin"}) # 200
  THEN [status |-> Auth(us, caller, {"admin"}), users |-> us]
  ELSE IF role \notin RoleList THEN [status |-> 400, users |-> us]
  ELSE IF id \notin DOMAIN us THEN [status |-> 404, users |-> us]
  ELSE [status |-> 200, users |-> [us EXCEPT ![id].role = role]]

UpdateRole(caller, id, role) ==
  \E r \in {UpdateRoleDoc(users, caller, id, role)} :
  /\ users' = r.users
  /\ last' = AccountReq("updateRole", r.status, caller, id, role)
  /\ UNCHANGED <<inflight, odm, folders, nextId, dirs, files, nextFileId, disk>>

\* The collection holds the administrator the deployment was seeded with;
\* callers are the holders of a token and the anonymous caller.
Emails == { "e1", "e2" }
RoleInputs == RoleList \cup { NoRole, "owner" }
UserIds == 1..MaxUsers

InitAccounts ==
  /\ folders = <<>>
  /\ nextId = 1
  /\ dirs = {}
  /\ last = NoReq
  /\ files = <<>>
  /\ nextFileId = 1
  /\ disk = <<>>
  /\ odm = 6
  /\ inflight = <<>>
  /\ users = <<UserDoc(Admin, "admin")>>

NextAccounts ==
  \/ \E e \in Emails, r \in RoleInputs : Register(e, r)
  \/ \E c \in UserIds \cup { Anonymous }, e \in Emails, r \in RoleInputs :
        CreateUser(c, e, r)
  \/ \E c \in UserIds \cup { Anonymous }, i \in UserIds, r \in RoleInputs :
        UpdateRole(c, i, r)

SpecAccounts == InitAccounts /\ [][NextAccounts]_vars

Elevated == { "admin", "sub-admin" }

\* C39: a User document comes to carry the role admin or sub-admin only
\* through a create-user or update-role request of a caller authenticated
\* as an admin, and a request of an unauthenticated caller creates no user
\* but one of role 'user'.
C39_ElevatedRolesComeFromAdmins ==
  [][ /\ \A u \in DOMAIN users' :
           ( /\ users'[u].role \in Elevated
             /\ u \in DOMAIN users => users[u].role # users'[u].role ) =>
             /\ last'.op \in { "createUser", "updateRole" }
             /\ last'.caller \in DOMAIN users
             /\ users[last'.caller].role = "admin"
      /\ ( last'.caller = Anonymous /\ Len(users') > Len(users) ) =>
           users'[Len(users')].role = "user" ]_vars

===============================================================================
